---- MODULE Spec2Model ----
(***************************************************************************)
(* A model of src/lib/visual.cpp of notcurses: the ncvisual object, its    *)
(* constructors from raw memory, ncvisual_render, the frame scheduler      *)
(* ncvisual_stream of the FFmpeg build, and the entry points of the build  *)
(* without a decode backend.                                               *)
(*                                                                         *)
(* Memory is a heap of buffers addressed by their index, planes are a      *)
(* table addressed by their index, and 0 is the null pointer of both.      *)
(* The external collaborators (ncplane_new, ncblit_rgba, the allocator,    *)
(* the decoder, the clock, the callback) are inputs drawn with \E.         *)
(***************************************************************************)
EXTENDS Integers, Sequences, FiniteSets, TLC

VARIABLES
  ncv,      \* the ncvisual struct (lines 37-77); ncv.live says it is allocated
  heap,     \* pixel buffers: heap[a] = [st, words], a >= 1
  planes,   \* ncplanes: planes[p] = [st, rows, cols], p >= 1
  input,    \* the caller's side of a constructor call: its buffer and geometry
  call,     \* the last API call: its name, its arguments and what it returned
  blits,    \* the calls of ncblit_rgba made by the last API call
  ncerr,    \* the caller's nc_err_e variable handed in as out-parameter
  strm,     \* the activation record of ncvisual_stream
  clock,    \* CLOCK_MONOTONIC, in nanoseconds
  hist      \* what the running ncvisual_stream has done so far

vars == <<ncv, heap, planes, input, call, blits, ncerr, strm, clock, hist>>

(***************************************************************************)
(* Bounds of the model.                                                    *)
(***************************************************************************)
\* the largest rows / cols of an input buffer
MaxDim == 2
\* INT_MAX of the model's int: int is the range -IntMax-1 .. IntMax
IntMax == 7

\* the rows and columns of the terminal
TermRows == 2
TermCols == 2
\* the height and width in pixels of the frames of the media
FrameHeight == 2
FrameWidth == 2
\* the most frames a source yields
MaxFrames == 3
\* the bits of the significand of the model's float (FLT_MANT_DIG)
MantBits == 2

NULL == 0
IMGALLOCALIGN == 32
NANOSECS_IN_SEC == 1000000000

NCERR_SUCCESS == "NCERR_SUCCESS"
NCERR_NOMEM == "NCERR_NOMEM"
NCERR_EOF == "NCERR_EOF"
NCERR_DECODE == "NCERR_DECODE"
NCERR_UNIMPLEMENTED == "NCERR_UNIMPLEMENTED"
NcErrs == {NCERR_SUCCESS, NCERR_NOMEM, NCERR_EOF, NCERR_DECODE, NCERR_UNIMPLEMENTED}

NCSCALE_NONE == "NCSCALE_NONE"
NCSCALE_SCALE == "NCSCALE_SCALE"
NCSCALE_STRETCH == "NCSCALE_STRETCH"
Styles == {NCSCALE_NONE, NCSCALE_SCALE, NCSCALE_STRETCH}

(***************************************************************************)
(* The heap and the plane table.                                           *)
(***************************************************************************)
\* malloc: a fresh buffer holding words
Alloc(h, words) == Append(h, [st |-> "live", words |-> words])

\* the address Alloc(h, _) hands out
NewAddr(h) == Len(h) + 1

\* free(p): free(NULL) does nothing; a second free of an address is told
\* from the first, and freed memory holds nothing
Free(h, a) ==
  IF a = NULL THEN h
  ELSE [h EXCEPT ![a] = [st |-> IF @.st = "live" THEN "freed" ELSE "doublefreed",
                         words |-> <<>>]]

\* memdup as a bug would have it: the source pointer handed back, no copy
memdup_alias(h, src, ok) ==
  [heap |-> h, addr |-> IF ok THEN src ELSE NULL]

\* memdup(src, n): a fresh allocation holding a copy of src, or NULL
memdup(h, src, ok) ==
  IF ok THEN [heap |-> Alloc(h, h[src].words), addr |-> NewAddr(h)]
  ELSE [heap |-> h, addr |-> NULL]

\* ncplane_new(nc, rows, cols, y, x, opaque): a fresh plane, or NULL
ncplane_new(ps, rows, cols, ok) ==
  IF ok THEN [planes |-> Append(ps, [st |-> "live", rows |-> rows, cols |-> cols]),
              ncp |-> Len(ps) + 1]
  ELSE [planes |-> ps, ncp |-> NULL]

\* ncplane_destroy(n)
ncplane_destroy(ps, p) ==
  IF p = NULL THEN ps
  ELSE [ps EXCEPT ![p] = [@ EXCEPT !.st = IF @ = "live" THEN "destroyed" ELSE "doubledestroyed"]]

(***************************************************************************)
(* The ncvisual struct.                                                    *)
(***************************************************************************)
\* new ncvisual{}: every field zero
ZeroVisual ==
  [live |-> FALSE, packet_outstanding |-> 0, dstwidth |-> 0, dstheight |-> 0,
   timescale |-> 0, ncp |-> NULL, placex |-> 0, placey |-> 0, rowstride |-> 0,
   style |-> NCSCALE_NONE, framenum |-> 0, ncobj |-> FALSE, fmtctx |-> FALSE,
   oframe_data |-> NULL, data |-> NULL, owndata |-> FALSE, encode_scale |-> 0]

\* ncvisual_create(timescale)
ncvisual_create(timescale) ==
  [ZeroVisual EXCEPT !.live = TRUE, !.timescale = timescale]

\* encoding_vert_scale(nc)
encoding_vert_scale(v) == v.encode_scale

\* set_encoding_vert_scale(nc, ncv): 1 + nc->utf8
set_encoding_vert_scale(utf8, v) ==
  [v EXCEPT !.encode_scale = 1 + (IF utf8 THEN 1 ELSE 0)]

\* ncvisual_set_data(ncv, data, owned): returns the visual and the heap
ncvisual_set_data(v, h, data, owned) ==
  [ncv |-> [v EXCEPT !.data = data, !.owndata = owned],
   heap |-> IF v.owndata THEN Free(h, v.data) ELSE h]

\* ncvisual_destroy_common(ncv), and with it ncvisual_destroy(ncv)
ncvisual_destroy_common(v, h, ps) ==
  [ncv |-> ZeroVisual,
   heap |-> IF v.owndata THEN Free(h, v.data) ELSE h,
   planes |-> IF v.ncobj /\ v.ncp # NULL THEN ncplane_destroy(ps, v.ncp) ELSE ps]

(***************************************************************************)
(* Constructors.  Each returns the visual (ZeroVisual with live = FALSE    *)
(* when the constructor returns nullptr), the heap and the plane table.    *)
(***************************************************************************)
\* the rows of cells that hold dstheight rows of pixels (lines 245-250)
disprows(utf8, dstheight) ==
  IF utf8 THEN (dstheight \div 2) + (dstheight % 2) ELSE dstheight

\* what a constructor hands back when it fails after ncvisual_destroy(ncv)
Destroyed(v, h, ps) == ncvisual_destroy_common(v, h, ps)

\* ncvisual_from_rgba(nc, rgba, rows, rowstride, cols)
ncvisual_from_rgba(h, ps, rgba, rows, rowstride, cols, utf8, planeOk, dupOk) ==
  IF rowstride % 4 # 0 THEN [ncv |-> ZeroVisual, heap |-> h, planes |-> ps]
  ELSE
    LET v0 == set_encoding_vert_scale(utf8, ncvisual_create(1))
        v1 == [v0 EXCEPT !.rowstride = rowstride, !.ncobj = TRUE,
                         !.dstwidth = cols, !.dstheight = rows]
        np == ncplane_new(ps, disprows(utf8, v1.dstheight), v1.dstwidth, planeOk)
        v2 == [v1 EXCEPT !.ncp = np.ncp]
    IN IF np.ncp = NULL THEN Destroyed(v2, h, np.planes)
       ELSE LET d == memdup(h, rgba, dupOk)
            IN IF d.addr = NULL THEN Destroyed(v2, d.heap, np.planes)
               ELSE LET s == ncvisual_set_data(v2, d.heap, d.addr, TRUE)
                    IN [ncv |-> s.ncv, heap |-> s.heap, planes |-> np.planes]

\* ncvisual_from_bgra(nc, bgra, rows, rowstride, cols): as from_rgba, but the
\* vertical scale is never set and the pixels are copied as they are
ncvisual_from_bgra(h, ps, bgra, rows, rowstride, cols, utf8, planeOk, dupOk) ==
  IF rowstride % 4 # 0 THEN [ncv |-> ZeroVisual, heap |-> h, planes |-> ps]
  ELSE
    LET v0 == ncvisual_create(1)
        v1 == [v0 EXCEPT !.rowstride = rowstride, !.ncobj = TRUE,
                         !.dstwidth = cols, !.dstheight = rows]
        np == ncplane_new(ps, disprows(utf8, v1.dstheight), v1.dstwidth, planeOk)
        v2 == [v1 EXCEPT !.ncp = np.ncp]
    IN IF np.ncp = NULL THEN Destroyed(v2, h, np.planes)
       ELSE LET d == memdup(h, bgra, dupOk)
            IN IF d.addr = NULL THEN Destroyed(v2, d.heap, np.planes)
               ELSE LET s == ncvisual_set_data(v2, d.heap, d.addr, TRUE)
                    IN [ncv |-> s.ncv, heap |-> s.heap, planes |-> np.planes]

\* ncvisual_open(filename, ncerr) of the FFmpeg build, when every step of it
\* succeeds: the struct is zeroed again by memset and the input is open
ncvisual_open ==
  [ZeroVisual EXCEPT !.live = TRUE, !.fmtctx = TRUE]

\* ncvisual_from_file(nc, filename, ncerr, y, x, style) of the FFmpeg build
ncvisual_from_file(y, x, style, utf8) ==
  [set_encoding_vert_scale(utf8, ncvisual_open)
     EXCEPT !.placey = y, !.placex = x, !.style = style, !.ncobj = TRUE, !.ncp = NULL]

(***************************************************************************)
(* ncvisual_render.                                                        *)
(***************************************************************************)
\* a + b > lim in int arithmetic: when a + b overflows int the behaviour is
\* undefined, and ub is the outcome the build produces
IntSumExceeds(a, b, lim, ub) ==
  IF a + b > IntMax THEN ub ELSE a + b > lim

\* the guard of line 314, "no need to draw zero-size object, exit"
zero_size(lenx, leny) == lenx < 0 \/ leny < 0

\* the length after the defaulting of lines 308-313
DefaultLen(len, dst, beg) == IF len = -1 THEN dst - beg ELSE len

\* the call of ncblit_rgba as a bug would have it: y and x exchanged
blit_call_swapped(v, h, begy, begx, leny, lenx) ==
  [ncp |-> v.ncp, placey |-> v.placex, placex |-> v.placey,
   rowstride |-> v.rowstride, data |-> v.data, words |-> h[v.data].words,
   begy |-> begx, begx |-> begy, leny |-> lenx, lenx |-> leny]

\* the call of ncblit_rgba at lines 327-328, with the pixels it is handed
blit_call(v, h, begy, begx, leny, lenx) ==
  [ncp |-> v.ncp, placey |-> v.placey, placex |-> v.placex,
   rowstride |-> v.rowstride, data |-> v.data, words |-> h[v.data].words,
   begy |-> begy, begx |-> begx, leny |-> leny, lenx |-> lenx]

\* the checks of lines 298-307
render_rejects(v, begy, begx, leny, lenx) ==
  \/ begy < 0 \/ begx < 0 \/ lenx < -1 \/ leny < -1
  \/ v.data = NULL
  \/ begx >= v.dstwidth \/ begy >= v.dstheight

\* ncvisual_render(ncv, begy, begx, leny, lenx): what it returns and the calls
\* of ncblit_rgba it makes; blitret is what ncblit_rgba returns, ubx and uby
\* the outcomes of an overflowing begx + lenx and begy + leny
ncvisual_render(v, h, begy, begx, leny, lenx, blitret, ubx, uby) ==
  IF render_rejects(v, begy, begx, leny, lenx) THEN [ret |-> -1, blits |-> <<>>]
  ELSE
    LET lx == DefaultLen(lenx, v.dstwidth, begx)
        ly == DefaultLen(leny, v.dstheight, begy)
    IN IF zero_size(lx, ly) THEN [ret |-> 0, blits |-> <<>>]
       ELSE IF \/ IntSumExceeds(begx, lx, v.dstwidth, ubx)
               \/ IntSumExceeds(begy, ly, v.dstheight, uby)
            THEN [ret |-> -1, blits |-> <<>>]
            ELSE [ret |-> blitret, blits |-> <<blit_call(v, h, begy, begx, ly, lx)>>]

(***************************************************************************)
(* ncvisual_decode of the FFmpeg build.  The packet loop of lines 475-515  *)
(* is taken by its outcome: a frame, the end of the stream, or an error.   *)
(***************************************************************************)
\* averr2ncerr(averr)
averr2ncerr(averr) == IF averr = "AVERROR_EOF" THEN NCERR_EOF ELSE NCERR_DECODE

\* linesize[0] as av_image_alloc sets it for RGBA: width * 4 bytes, aligned
linesize(width) == ((width * 4 + IMGALLOCALIGN - 1) \div IMGALLOCALIGN) * IMGALLOCALIGN

\* the pixels sws_scale writes for frame number k
FrameWords(width, height, k) == [i \in 1..((linesize(width) \div 4) * height) |-> k]

\* lines 518-547: the plane is created for the first frame, and afterwards
\* its size is read back; fail names the step that fails, if one does
decode_geometry(v, ps, planeOk) ==
  IF v.ncp = NULL
  THEN IF v.style # NCSCALE_NONE /\ (v.placey >= TermRows \/ v.placex >= TermCols)
       THEN [err |-> NCERR_DECODE, ncv |-> v, planes |-> ps]
       ELSE
         LET rows == IF v.style = NCSCALE_NONE
                     THEN FrameHeight \div encoding_vert_scale(v)
                     ELSE TermRows - v.placey
             cols == IF v.style = NCSCALE_NONE THEN FrameWidth ELSE TermCols - v.placex
             np == ncplane_new(ps, rows, cols, planeOk)
             v1 == [v EXCEPT !.dstwidth = cols,
                             !.dstheight = rows * encoding_vert_scale(v),
                             !.ncp = np.ncp, !.placey = 0, !.placex = 0]
         IN [err |-> IF np.ncp = NULL THEN NCERR_NOMEM ELSE NCERR_SUCCESS,
             ncv |-> v1, planes |-> np.planes]
  ELSE
    LET rows == ps[v.ncp].rows
        cols == ps[v.ncp].cols
    IN [err |-> NCERR_SUCCESS,
        ncv |-> IF rows # v.dstheight \div encoding_vert_scale(v) \/ cols # v.dstwidth
                THEN [v EXCEPT !.dstheight = rows * encoding_vert_scale(v),
                               !.dstwidth = cols]
                ELSE v,
        planes |-> ps]

\* ncvisual_decode(nc): got is what the packet loop ends with ("frame",
\* "AVERROR_EOF" or another AVERROR), fail the step after it that fails
\* ("none", "plane", "sws", "alloc" or "scale"), k the number of the frame
ncvisual_decode(v, h, ps, got, fail, k) ==
  IF ~v.fmtctx THEN [err |-> NCERR_DECODE, ncv |-> v, heap |-> h, planes |-> ps]
  ELSE
    LET h1 == Free(h, v.oframe_data)
        v1 == [v EXCEPT !.oframe_data = NULL]
    IN IF got # "frame"
       THEN [err |-> averr2ncerr(got), ncv |-> v1, heap |-> h1, planes |-> ps]
       ELSE
         LET g == decode_geometry(v1, ps, fail # "plane")
         IN IF g.err # NCERR_SUCCESS
            THEN [err |-> g.err, ncv |-> g.ncv, heap |-> h1, planes |-> g.planes]
            ELSE IF fail = "sws"
            THEN [err |-> NCERR_DECODE, ncv |-> g.ncv, heap |-> h1, planes |-> g.planes]
            ELSE IF fail = "alloc"
            THEN [err |-> NCERR_NOMEM, ncv |-> g.ncv, heap |-> h1, planes |-> g.planes]
            ELSE
              LET h2 == Alloc(h1, FrameWords(g.ncv.dstwidth, g.ncv.dstheight, k))
                  v2 == [g.ncv EXCEPT !.oframe_data = NewAddr(h1)]
              IN IF fail = "scale"
                 THEN [err |-> NCERR_NOMEM, ncv |-> v2, heap |-> h2, planes |-> g.planes]
                 ELSE
                   LET v3 == [v2 EXCEPT !.rowstride = linesize(v2.dstwidth)]
                       sd == ncvisual_set_data(v3, h2, v3.oframe_data, FALSE)
                   IN [err |-> NCERR_SUCCESS, ncv |-> sd.ncv, heap |-> sd.heap,
                       planes |-> g.planes]

(***************************************************************************)
(* The arithmetic of ncvisual_stream of the FFmpeg build.  Times are in    *)
(* nanoseconds; tbns is the stream's time_base in nanoseconds per unit.    *)
(***************************************************************************)
\* the spacing of the floats around x >= 0
RECURSIVE Quantum(_)
Quantum(x) == IF x < 2 ^ MantBits THEN 1 ELSE 2 * Quantum(x \div 2)

\* the conversion of an integer x >= 0 to float: the nearest float, ties to even
FloatRound(x) ==
  LET q == Quantum(x)
      lo == (x \div q) * q
      r == x - lo
  IN IF 2 * r < q THEN lo
     ELSE IF 2 * r > q THEN lo + q
     ELSE IF (lo \div q) % 2 = 0 THEN lo ELSE lo + q

\* lines 744-746: usets is decided by the timestamp of frame 1
stream_usets(frame, ts, usets) == IF frame = 1 /\ ts # 0 THEN TRUE ELSE usets

\* line 747 as a bug would have it: a failed render is not noticed
render_failed_never(ret) == FALSE

\* line 747: ncvisual_render(...) < 0
render_failed(ret) == ret < 0

\* line 752: if(r)
callback_stops(r) == r # 0

\* line 753 as a bug would have it: return -1
callback_result_failure(r) == -1

\* line 753: return r
callback_result(r) == r

\* line 761: duration = pkt_duration * tbase * NANOSECS_IN_SEC
stream_duration(pkt_duration, tbns) == pkt_duration * tbns

\* line 763: sum_duration += (duration * ncv->timescale), the product and the
\* sum taken in float, timescale being float, and the result made uint64_t
stream_sum(sum_duration, duration, timescale) ==
  FloatRound(FloatRound(sum_duration) + FloatRound(FloatRound(duration) * timescale))

\* lines 764-772: the time the next frame is due; schedns is a double, which
\* holds the whole nanoseconds of the model (all below 2^53) exactly
stream_sched(nsbegin, usets, ts, tbns, duration, timescale, sum_duration) ==
  IF usets
  THEN LET tb == IF tbns = 0 THEN duration * NANOSECS_IN_SEC ELSE tbns
       IN nsbegin + ts * (tb * timescale)
  ELSE nsbegin + sum_duration

\* line 773 as a bug would have it: nsnow <= schedns
stream_sleeps_le(nsnow, schedns) == nsnow <= schedns

\* line 773: if(nsnow < schedns)
stream_sleeps(nsnow, schedns) == nsnow < schedns

\* line 774: the interval handed to nanosleep
stream_interval(nsnow, schedns) == schedns - nsnow

\* lines 778-781 as a bug would have them: every end of the loop is a success
stream_result_always0(err) == 0

\* lines 778-781: what ncvisual_stream returns when a decode ends the loop
stream_result(err) == IF err = NCERR_EOF THEN 0 ELSE -1

(***************************************************************************)
(* The callers of the constructors and of ncvisual_render.                 *)
(***************************************************************************)
\* the pixels of a caller's buffer of n words: all different
InputWords(n, base) == [i \in 1..n |-> base + i]

Bases == {0, 10}

\* bytes of padding after the cols * 4 bytes of a row; 2 gives a stride that
\* is not a multiple of 4
Pads == {0, 2, 4}

\* what ncblit_rgba may return
BlitRets == {-1, 0, 3}

\* origins and lengths a caller asks ncvisual_render for
Origins == {-1, 0, 1, MaxDim}
Lengths == {-2, -1, 0, 1, MaxDim, IntMax}

NoInput == [kind |-> "none", addr |-> NULL, words |-> <<>>, rows |-> 0,
            rowstride |-> 0, cols |-> 0]

NoCall == [op |-> "none"]

NoSource == [n |-> 0, term |-> "AVERROR_EOF"]

\* ncvisual_stream is not running
IdleStream ==
  [pc |-> "idle", frame |-> 0, usets |-> FALSE, sum_duration |-> 0, nsbegin |-> 0,
   tbns |-> 0, hascb |-> FALSE, ts |-> 0, pkt_duration |-> 0, ret |-> 0,
   nsnow |-> 0, schedns |-> 0, slept |-> FALSE, interval |-> 0, src |-> NoSource]

\* nothing has been done yet
NoHist ==
  [decodecalls |-> 0, decodes |-> 0, renders |-> 0, renderoks |-> 0,
   callbacks |-> 0, paces |-> 0, sleeps |-> 0, cbret |-> 0, exact |-> 0,
   steps |-> <<>>, lastdecode |-> NCERR_SUCCESS, ts1 |-> 0]

InitRender ==
  /\ ncv = ZeroVisual
  /\ heap = <<>>
  /\ planes = <<>>
  /\ input = NoInput
  /\ call = NoCall
  /\ blits = <<>>
  /\ ncerr = NCERR_SUCCESS
  /\ strm = IdleStream
  /\ clock = 0
  /\ hist = NoHist

\* the caller builds a buffer and calls ncvisual_from_rgba
FromRgba ==
  /\ call.op = "none"
  /\ \E rows \in 1..MaxDim, cols \in 1..MaxDim, pad \in Pads, base \in Bases,
        utf8 \in BOOLEAN, planeOk \in BOOLEAN, dupOk \in BOOLEAN :
       LET rowstride == cols * 4 + pad
           words == InputWords((rowstride \div 4) * rows, base)
           rgba == NewAddr(heap)
           r == ncvisual_from_rgba(Alloc(heap, words), planes, rgba, rows,
                                   rowstride, cols, utf8, planeOk, dupOk)
       IN /\ ncv' = r.ncv
          /\ heap' = r.heap
          /\ planes' = r.planes
          /\ input' = [kind |-> "rgba", addr |-> rgba, words |-> words,
                       rows |-> rows, rowstride |-> rowstride, cols |-> cols]
          /\ call' = [op |-> "from_rgba", ret |-> IF r.ncv.live THEN 1 ELSE 0]
  /\ blits' = <<>>
  /\ UNCHANGED <<ncerr, strm, clock, hist>>

\* the caller builds a buffer and calls ncvisual_from_bgra
FromBgra ==
  /\ call.op = "none"
  /\ \E rows \in 1..MaxDim, cols \in 1..MaxDim, pad \in Pads, base \in Bases,
        utf8 \in BOOLEAN, planeOk \in BOOLEAN, dupOk \in BOOLEAN :
       LET rowstride == cols * 4 + pad
           words == InputWords((rowstride \div 4) * rows, base)
           bgra == NewAddr(heap)
           r == ncvisual_from_bgra(Alloc(heap, words), planes, bgra, rows,
                                   rowstride, cols, utf8, planeOk, dupOk)
       IN /\ ncv' = r.ncv
          /\ heap' = r.heap
          /\ planes' = r.planes
          /\ input' = [kind |-> "bgra", addr |-> bgra, words |-> words,
                       rows |-> rows, rowstride |-> rowstride, cols |-> cols]
          /\ call' = [op |-> "from_bgra", ret |-> IF r.ncv.live THEN 1 ELSE 0]
  /\ blits' = <<>>
  /\ UNCHANGED <<ncerr, strm, clock, hist>>

\* the caller opens a file: the visual has no buffer until it is decoded
FromFile ==
  /\ call.op = "none"
  /\ \E y \in 0..1, x \in 0..1, style \in Styles, utf8 \in BOOLEAN :
       ncv' = ncvisual_from_file(y, x, style, utf8)
  /\ call' = [op |-> "from_file", ret |-> 1]
  /\ ncerr' = NCERR_SUCCESS
  /\ blits' = <<>>
  /\ UNCHANGED <<heap, planes, input, strm, clock, hist>>

\* the caller writes over its own buffer after the constructor has returned
CallerScribble ==
  /\ input.addr # NULL
  /\ heap[input.addr].words = input.words
  /\ heap' = [heap EXCEPT ![input.addr].words = [i \in DOMAIN @ |-> 0]]
  /\ UNCHANGED <<ncv, planes, input, call, blits, ncerr, strm, clock, hist>>

\* the caller calls ncvisual_render
Render ==
  /\ ncv.live
  /\ call.op # "render"
  /\ \E begy \in Origins, begx \in Origins, leny \in Lengths, lenx \in Lengths :
     \E blitret \in BlitRets :
     \E ubx \in IF begx + lenx > IntMax THEN BOOLEAN ELSE {FALSE},
        uby \in IF begy + leny > IntMax THEN BOOLEAN ELSE {FALSE} :
       LET r == ncvisual_render(ncv, heap, begy, begx, leny, lenx, blitret, ubx, uby)
       IN /\ call' = [op |-> "render", begy |-> begy, begx |-> begx,
                      leny |-> leny, lenx |-> lenx, ret |-> r.ret,
                      blitret |-> IF r.blits = <<>> THEN 0 ELSE blitret]
          /\ blits' = r.blits
  /\ UNCHANGED <<ncv, heap, planes, input, ncerr, strm, clock, hist>>

\* ncvisual_render has returned and the caller goes on
Return ==
  /\ call.op = "render"
  /\ call' = [op |-> "returned"]
  /\ blits' = <<>>
  /\ UNCHANGED <<ncv, heap, planes, input, ncerr, strm, clock, hist>>

NextRender == FromRgba \/ FromBgra \/ FromFile \/ CallerScribble \/ Render \/ Return

SpecRender == InitRender /\ [][NextRender]_vars

(***************************************************************************)
(* ncvisual_stream of the FFmpeg build, step by step.                      *)
(***************************************************************************)
\* what the source ends with after its frames: the end of the stream, a read
\* or codec error, or a frame whose output buffer cannot be allocated
Terms == {"AVERROR_EOF", "AVERROR_INVALIDDATA", "alloc"}

\* what the callback may return
CbRets == {-1, 0, 5}

\* pkt_duration and best_effort_timestamp of a frame, in units of time_base
Durations == {2, 5}

\* best_effort_timestamp of a frame that has no timestamp: AV_NOPTS_VALUE,
\* the least int64_t, here the least time of the model
AV_NOPTS_VALUE == -(2 ^ 20)

Timestamps == {0, 1, AV_NOPTS_VALUE}

\* nanoseconds a decode takes, and nanoseconds nanosleep oversleeps
Lags == {0, 1}

\* the visuals that are streamed: opened from a file, no plane yet
StreamVisuals == {ncvisual_from_file(0, 0, NCSCALE_SCALE, TRUE)}

InitStream ==
  /\ ncv \in StreamVisuals
  /\ heap = <<>>
  /\ planes = <<>>
  /\ input = NoInput
  /\ call = NoCall
  /\ blits = <<>>
  /\ ncerr = NCERR_NOMEM
  /\ strm = IdleStream
  /\ clock = 1
  /\ hist = NoHist

\* lines 729-738: the call of ncvisual_stream and what precedes its loop
StreamBegin ==
  /\ strm.pc = "idle"
  /\ ncv.live
  /\ \E timescale \in {1, 2}, hascb \in BOOLEAN, tbns \in {0, 1},
        n \in 0..MaxFrames, term \in Terms :
       /\ ncv' = [ncv EXCEPT !.timescale = timescale]
       /\ strm' = [IdleStream EXCEPT !.pc = "decode", !.frame = 1, !.tbns = tbns,
                                     !.hascb = hascb, !.nsbegin = clock,
                                     !.src = [n |-> n, term |-> term]]
  /\ ncerr' = NCERR_SUCCESS
  /\ clock' = clock
  /\ call' = [op |-> "stream"]
  /\ hist' = NoHist
  /\ UNCHANGED <<heap, planes, input, blits>>

\* line 739 to 746: the loop head calls ncvisual_decode; the loop ends when it
\* does not return NCERR_SUCCESS
StreamDecode ==
  /\ strm.pc = "decode"
  /\ \E ts \in Timestamps, pkt_duration \in Durations, lag \in Lags :
       LET more == hist.decodes < strm.src.n
           got == IF more \/ strm.src.term = "alloc" THEN "frame" ELSE strm.src.term
           fail == IF more \/ strm.src.term # "alloc" THEN "none" ELSE "alloc"
           r == ncvisual_decode(ncv, heap, planes, got, fail, hist.decodes + 1)
       IN /\ ncv' = r.ncv
          /\ heap' = r.heap
          /\ planes' = r.planes
          /\ ncerr' = r.err
          /\ clock' = clock + lag
          /\ IF r.err = NCERR_SUCCESS
             THEN /\ strm' = [strm EXCEPT !.pc = "render", !.ts = ts,
                                          !.pkt_duration = pkt_duration,
                                          !.usets = stream_usets(strm.frame, ts, strm.usets),
                                          !.nsnow = 0, !.schedns = 0,
                                          !.slept = FALSE, !.interval = 0]
                  /\ hist' = [hist EXCEPT !.decodecalls = @ + 1, !.decodes = @ + 1,
                                          !.steps = <<"decode">>, !.lastdecode = r.err,
                                          !.ts1 = IF hist.decodes = 0 THEN ts ELSE @]
             ELSE /\ strm' = [strm EXCEPT !.pc = "done", !.ret = stream_result(r.err),
                                          !.nsnow = 0, !.schedns = 0,
                                          !.slept = FALSE, !.interval = 0]
                  /\ hist' = [hist EXCEPT !.decodecalls = @ + 1,
                                          !.steps = <<"decode failed">>,
                                          !.lastdecode = r.err]
  /\ blits' = <<>>
  /\ UNCHANGED <<input, call>>

\* lines 747-749: the frame is rendered in full; hist tells what the render
\* returned, whatever the stream makes of it
StreamRender ==
  /\ strm.pc = "render"
  /\ \E blitret \in BlitRets :
       LET r == ncvisual_render(ncv, heap, 0, 0, -1, -1, blitret, FALSE, FALSE)
       IN /\ blits' = r.blits
          /\ strm' = IF render_failed(r.ret)
                     THEN [strm EXCEPT !.pc = "done", !.ret = -1]
                     ELSE [strm EXCEPT !.pc = IF strm.hascb THEN "callback" ELSE "pace"]
          /\ hist' = [hist EXCEPT !.renders = @ + 1,
                                  !.renderoks = @ + (IF r.ret < 0 THEN 0 ELSE 1),
                                  !.steps = Append(@, IF r.ret < 0 THEN "render failed"
                                                      ELSE "render")]
  /\ UNCHANGED <<ncv, heap, planes, input, call, ncerr, clock>>

\* lines 750-755: the callback is called, and a nonzero return ends the stream
StreamCallback ==
  /\ strm.pc = "callback"
  /\ \E r \in CbRets :
       /\ strm' = IF callback_stops(r)
                  THEN [strm EXCEPT !.pc = "done", !.ret = callback_result(r)]
                  ELSE [strm EXCEPT !.pc = "pace"]
       /\ hist' = [hist EXCEPT !.callbacks = @ + 1, !.cbret = r,
                               !.steps = Append(@, "callback")]
  /\ UNCHANGED <<ncv, heap, planes, input, call, blits, ncerr, clock>>

\* lines 756-776: the frame is counted, its due time is computed and the
\* stream sleeps until then; nanosleep returns after interval or later
StreamPace ==
  /\ strm.pc = "pace"
  /\ \E over \in Lags :
       LET nsnow == clock
           duration == stream_duration(strm.pkt_duration, strm.tbns)
           sum == stream_sum(strm.sum_duration, duration, ncv.timescale)
           schedns == stream_sched(strm.nsbegin, strm.usets, strm.ts, strm.tbns,
                                   duration, ncv.timescale, sum)
           sleeps == stream_sleeps(nsnow, schedns)
           interval == IF sleeps THEN stream_interval(nsnow, schedns) ELSE 0
       IN /\ strm' = [strm EXCEPT !.pc = "decode", !.frame = @ + 1,
                                  !.sum_duration = sum, !.nsnow = nsnow,
                                  !.schedns = schedns, !.slept = sleeps,
                                  !.interval = interval]
          /\ clock' = IF sleeps THEN clock + interval + over ELSE clock
          /\ hist' = [hist EXCEPT !.paces = @ + 1,
                                  !.sleeps = @ + (IF sleeps THEN 1 ELSE 0),
                                  !.exact = @ + duration * ncv.timescale,
                                  !.steps = Append(@, IF sleeps THEN "sleep" ELSE "no sleep")]
  /\ UNCHANGED <<ncv, heap, planes, input, call, blits, ncerr>>

NextStream == StreamBegin \/ StreamDecode \/ StreamRender \/ StreamCallback \/ StreamPace

SpecStream == InitStream /\ [][NextStream]_vars

(***************************************************************************)
(* The build without FFmpeg and without OpenImageIO.                       *)
(***************************************************************************)
\* lines 792-794
notcurses_canopen_images_nobackend == FALSE

\* lines 796-798
notcurses_canopen_videos_nobackend == FALSE

\* lines 800-803
ncvisual_decode_nobackend(v) == NCERR_UNIMPLEMENTED

\* lines 805-814: every parameter is cast to void, *ncerr is not written
ncvisual_stream_nobackend(v, err, timescale, hascb) == [ret |-> -1, ncerr |-> err]

\* lines 816-821: *ncerr is not written
ncplane_visual_open_nobackend(p, err) == [ret |-> NULL, ncerr |-> err]

\* lines 823-832: *ncerr is not written
ncvisual_from_file_nobackend(err, y, x, style) == [ret |-> NULL, ncerr |-> err]

\* lines 834-837
ncvisual_subtitle_nobackend(v) == NULL

\* lines 839-842
ncvisual_init_nobackend(loglevel) == 0

\* the visual the callers of this build hold: built from a pixel of memory
NoBackendVisual ==
  ncvisual_from_rgba(Alloc(<<>>, InputWords(1, 0)), <<>>, 1, 1, 4, 1, TRUE, TRUE, TRUE)

InitNoBackend ==
  /\ ncv = NoBackendVisual.ncv
  /\ heap = NoBackendVisual.heap
  /\ planes = NoBackendVisual.planes
  /\ input = NoInput
  /\ call = NoCall
  /\ blits = <<>>
  /\ ncerr = NCERR_SUCCESS
  /\ strm = IdleStream
  /\ clock = 0
  /\ hist = NoHist

\* the caller stores a value in the nc_err_e it will pass to the next call
CallerPresets ==
  /\ \E e \in NcErrs : ncerr' = e
  /\ call' = NoCall
  /\ UNCHANGED <<ncv, heap, planes, input, blits, strm, clock, hist>>

CanopenImages ==
  /\ call' = [op |-> "notcurses_canopen_images",
              ret |-> notcurses_canopen_images_nobackend]
  /\ UNCHANGED <<ncv, heap, planes, input, blits, ncerr, strm, clock, hist>>

CanopenVideos ==
  /\ call' = [op |-> "notcurses_canopen_videos",
              ret |-> notcurses_canopen_videos_nobackend]
  /\ UNCHANGED <<ncv, heap, planes, input, blits, ncerr, strm, clock, hist>>

DecodeNoBackend ==
  /\ call' = [op |-> "ncvisual_decode", ret |-> ncvisual_decode_nobackend(ncv)]
  /\ UNCHANGED <<ncv, heap, planes, input, blits, ncerr, strm, clock, hist>>

StreamNoBackend ==
  /\ \E timescale \in {1, 2}, hascb \in BOOLEAN :
       LET r == ncvisual_stream_nobackend(ncv, ncerr, timescale, hascb)
       IN /\ call' = [op |-> "ncvisual_stream", ret |-> r.ret,
                      timescale |-> timescale, hascb |-> hascb]
          /\ ncerr' = r.ncerr
  /\ UNCHANGED <<ncv, heap, planes, input, blits, strm, clock, hist>>

PlaneVisualOpenNoBackend ==
  /\ \E p \in DOMAIN planes :
       LET r == ncplane_visual_open_nobackend(p, ncerr)
       IN /\ call' = [op |-> "ncplane_visual_open", ret |-> r.ret]
          /\ ncerr' = r.ncerr
  /\ UNCHANGED <<ncv, heap, planes, input, blits, strm, clock, hist>>

FromFileNoBackend ==
  /\ \E y \in 0..1, x \in 0..1, style \in Styles :
       LET r == ncvisual_from_file_nobackend(ncerr, y, x, style)
       IN /\ call' = [op |-> "ncvisual_from_file", ret |-> r.ret,
                      y |-> y, x |-> x, style |-> style]
          /\ ncerr' = r.ncerr
  /\ UNCHANGED <<ncv, heap, planes, input, blits, strm, clock, hist>>

SubtitleNoBackend ==
  /\ call' = [op |-> "ncvisual_subtitle", ret |-> ncvisual_subtitle_nobackend(ncv)]
  /\ UNCHANGED <<ncv, heap, planes, input, blits, ncerr, strm, clock, hist>>

InitNoBackendCall ==
  /\ \E loglevel \in {0, 1} :
       call' = [op |-> "ncvisual_init", ret |-> ncvisual_init_nobackend(loglevel),
                loglevel |-> loglevel]
  /\ UNCHANGED <<ncv, heap, planes, input, blits, ncerr, strm, clock, hist>>

NextNoBackend ==
  \/ CallerPresets
  \/ CanopenImages
  \/ CanopenVideos
  \/ DecodeNoBackend
  \/ StreamNoBackend
  \/ PlaneVisualOpenNoBackend
  \/ FromFileNoBackend
  \/ SubtitleNoBackend
  \/ InitNoBackendCall

SpecNoBackend == InitNoBackend /\ [][NextNoBackend]_vars

(***************************************************************************)
(* ncvisual_setplane, ncvisual_rotate, ncvisual_from_plane,                *)
(* ncplane_visual_open and ncvisual_destroy.                               *)
(***************************************************************************)
\* ncvisual_setplane(ncv, n)
ncvisual_setplane(v, ps, n) ==
  IF n # v.ncp
  THEN [ncv |-> [v EXCEPT !.ncp = n],
        planes |-> IF v.ncp # NULL THEN ncplane_destroy(ps, v.ncp) ELSE ps]
  ELSE [ncv |-> v, planes |-> ps]

\* an indeterminate value: what a cell of malloc'd memory holds before it is
\* written, and what a read of freed memory yields
Uninit == -1

\* sin and cos of the angles are held as integers, scaled by SinCosScale
SinCosScale == 10000

\* the angles rotated by, in radians: 0, pi/4, 1 and 2.5
Angles ==
  {[rads |-> "0", s |-> 0, c |-> 10000],
   [rads |-> "pi/4", s |-> 7071, c |-> 7071],
   [rads |-> "1", s |-> 8415, c |-> 5403],
   [rads |-> "2.5", s |-> 5985, c |-> -8011]}

\* the conversion of the double a / SinCosScale to int: towards zero
TruncToInt(a) == IF a >= 0 THEN a \div SinCosScale ELSE -((-a) \div SinCosScale)

Max2(a, b) == IF a > b THEN a ELSE b

\* line 193: the pixel diameter
pdiam(v) == Max2(v.dstheight, v.dstwidth)

\* lines 202-212 as a bug would have them: targy and targx exchanged
rotate_dest_transposed(v, ang, y, x) ==
  LET centx == v.dstwidth \div 2
      centy == v.dstheight \div 2
      convy == y - centy
      convx == x - centx
      targy == TruncToInt(convx * ang.s + convy * ang.c)
      targx == TruncToInt(convx * ang.c + convy * ang.s)
  IN [y |-> targx + (pdiam(v) \div 2), x |-> targy + (pdiam(v) \div 2)]

\* lines 202-212: where the pixel (y, x) of the source goes
rotate_dest(v, ang, y, x) ==
  LET centx == v.dstwidth \div 2
      centy == v.dstheight \div 2
      convy == y - centy
      convx == x - centx
      targy == TruncToInt(convx * ang.s + convy * ang.c)
      targx == TruncToInt(convx * ang.c + convy * ang.s)
  IN [y |-> targy + (pdiam(v) \div 2), x |-> targx + (pdiam(v) \div 2)]

\* lines 214-217: the four assertions on a destination
rotate_asserts(v, d) == d.y >= 0 /\ d.x >= 0 /\ d.y < pdiam(v) /\ d.x < pdiam(v)

\* line 195: assert(ncv->rowstride / 4 >= ncv->dstwidth)
stride_asserts(v) == v.rowstride \div 4 >= v.dstwidth

\* the pixels (y, x) of the source, in the order of the loops of lines 205-206
SourcePixels(v) == (0..(v.dstheight - 1)) \X (0..(v.dstwidth - 1))

\* the pixels of the source whose destination fails an assertion
rotate_failures(v, ang) ==
  {yx \in SourcePixels(v) : ~rotate_asserts(v, rotate_dest(v, ang, yx[1], yx[2]))}

\* line 218: the buffer after the loops; a cell written more than once holds
\* the pixel written last, a cell never written holds what malloc left there;
\* the source is read even when a failed decode has freed it
rotate_words(v, h, ang) ==
  LET pd == pdiam(v)
      lin(yx) == LET d == rotate_dest(v, ang, yx[1], yx[2]) IN d.y * pd + d.x
      order(yx) == yx[1] * v.dstwidth + yx[2]
      src(yx) == IF h[v.data].st = "live"
                 THEN h[v.data].words[yx[1] * (v.rowstride \div 4) + yx[2] + 1]
                 ELSE Uninit
  IN [i \in 1..(pd * pd) |->
        LET from == {yx \in SourcePixels(v) : lin(yx) = i - 1}
        IN IF from = {} THEN Uninit
           ELSE src(CHOOSE yx \in from : \A zz \in from : order(zz) <= order(yx))]

\* rotate_new_geom(ncv, rads, &stheta, &ctheta): the diameter in cells, and the
\* plane made square; called with encode_scale # 0
rotate_new_geom(v, ps, resizeOk) ==
  LET scaledy == ps[v.ncp].rows * encoding_vert_scale(v)
      diam == IF scaledy < ps[v.ncp].cols THEN ps[v.ncp].cols ELSE scaledy
  IN IF ps[v.ncp].cols # scaledy
     THEN IF resizeOk
          THEN [diam |-> diam,
                planes |-> [ps EXCEPT ![v.ncp].rows = diam \div encoding_vert_scale(v),
                                      ![v.ncp].cols = diam]]
          ELSE [diam |-> -1, planes |-> ps]
     ELSE [diam |-> diam, planes |-> ps]

\* rotate_plane(n): the square plane that replaces n, which ncvisual_rotate
\* has made square before; ok tells whether it can be made
rotate_plane(ps, n, ok) == ncplane_new(ps, ps[n].rows, ps[n].cols, ok)

\* ncvisual_rotate(ncv, rads) when every destination passes the assertions;
\* resizeOk, newpOk and allocOk tell whether ncplane_resize_simple,
\* rotate_plane and malloc succeed
ncvisual_rotate(v, h, ps, ang, resizeOk, newpOk, allocOk) ==
  IF v.data = NULL THEN [ret |-> -1, ncv |-> v, heap |-> h, planes |-> ps]
  ELSE
    LET g == rotate_new_geom(v, ps, resizeOk)
    IN IF g.diam <= 0 THEN [ret |-> -1, ncv |-> v, heap |-> h, planes |-> g.planes]
       ELSE
         LET n == v.ncp
             np == rotate_plane(g.planes, n, newpOk)
         IN IF np.ncp = NULL
            THEN [ret |-> -1, ncv |-> v, heap |-> h, planes |-> np.planes]
            ELSE IF ~allocOk
            THEN [ret |-> -1, ncv |-> v, heap |-> h,
                  planes |-> ncplane_destroy(np.planes, np.ncp)]
            ELSE
              LET h1 == Alloc(h, rotate_words(v, h, ang))
                  sd == ncvisual_set_data(v, h1, NewAddr(h), TRUE)
              IN [ret |-> 0,
                  ncv |-> [sd.ncv EXCEPT !.dstwidth = pdiam(v), !.dstheight = pdiam(v),
                                         !.rowstride = pdiam(v) * 4, !.ncp = np.ncp],
                  heap |-> sd.heap,
                  planes |-> ncplane_destroy(np.planes, n)]

\* ncvisual_from_plane(n, begy, begx, leny, lenx): ncplane_rgba hands back a
\* malloc'd buffer of the plane's cells (or NULL), and ncplane_dup a copy of
\* the plane (or NULL)
ncvisual_from_plane(h, ps, n, utf8, rgbaOk, planeOk, dupOk, pdupOk) ==
  IF ~rgbaOk THEN [ncv |-> ZeroVisual, heap |-> h, planes |-> ps, rgba |-> NULL]
  ELSE
    LET rgba == NewAddr(h)
        h1 == Alloc(h, InputWords(ps[n].rows * ps[n].cols, 0))
        r == ncvisual_from_rgba(h1, ps, rgba, ps[n].rows, ps[n].cols * 4, ps[n].cols,
                                utf8, planeOk, dupOk)
    IN IF ~r.ncv.live
       THEN [ncv |-> r.ncv, heap |-> Free(r.heap, rgba), planes |-> r.planes,
             rgba |-> rgba]
       ELSE
         LET ps1 == ncplane_destroy(r.planes, r.ncv.ncp)
             d == ncplane_new(ps1, ps[n].rows, ps[n].cols, pdupOk)
         IN [ncv |-> [r.ncv EXCEPT !.ncp = d.ncp, !.ncobj = TRUE],
             heap |-> r.heap, planes |-> d.planes, rgba |-> rgba]

\* ncplane_visual_open(nc, filename, ncerr) of the FFmpeg build: the visual
\* draws on the caller's plane, and ncobj stays null
ncplane_visual_open(ps, n, utf8) ==
  LET v == set_encoding_vert_scale(utf8, ncvisual_open)
  IN [v EXCEPT !.dstheight = ps[n].rows * encoding_vert_scale(v),
               !.dstwidth = ps[n].cols, !.ncp = n, !.style = NCSCALE_STRETCH]

\* ncvisual_destroy(ncv) of the FFmpeg build: av_freep(&ncv->oframe) frees the
\* AVFrame and not the pixels av_image_alloc gave it
ncvisual_destroy(v, h, ps) == ncvisual_destroy_common(v, h, ps)

(***************************************************************************)
(* The life of one visual of the FFmpeg build: a constructor, then decode, *)
(* setplane and rotate in any order, then ncvisual_destroy.                *)
(***************************************************************************)
\* the most calls made on one visual, the constructor included
MaxOps == 4

\* the caller's side before the constructor: utf8 is notcurses_canutf8()
LifeInput(utf8) ==
  [kind |-> "none", addr |-> NULL, words |-> <<>>, rows |-> 0, rowstride |-> 0,
   cols |-> 0, utf8 |-> utf8]

\* the planes the caller has made before it makes the visual
CallerPlanes ==
  <<[st |-> "live", rows |-> 1, cols |-> 2], [st |-> "live", rows |-> 2, cols |-> 1]>>

\* what has been done to the visual: the planes of the caller, those of them
\* handed to the visual as its surface, the buffers allocated for the visual
\* by its constructor and by rotate, and the visual and its pixels as they
\* were before the last rotate
NoLife ==
  [external |-> DOMAIN CallerPlanes, supplied |-> {}, forvisual |-> {},
   made |-> FALSE, destroyed |-> FALSE, ops |-> 0,
   before |-> [ncv |-> ZeroVisual, words |-> <<>>, planes |-> <<>>]]

InitLife ==
  /\ ncv = ZeroVisual
  /\ heap = <<>>
  /\ planes = CallerPlanes
  /\ input \in {LifeInput(utf8) : utf8 \in BOOLEAN}
  /\ call = NoCall
  /\ blits = <<>>
  /\ ncerr = NCERR_SUCCESS
  /\ strm = IdleStream
  /\ clock = 0
  /\ hist = NoLife

\* the visual may be constructed
Unmade == ~hist.made /\ hist.ops < MaxOps

\* a call may be made on the visual
Usable == ncv.live /\ hist.ops < MaxOps

\* the caller calls ncvisual_from_rgba or ncvisual_from_bgra on its buffer
LifeFromRaw ==
  /\ Unmade
  /\ \E kind \in {"rgba", "bgra"}, rows \in 1..MaxDim, cols \in 1..MaxDim,
        pad \in Pads, planeOk \in BOOLEAN, dupOk \in BOOLEAN :
       LET rowstride == cols * 4 + pad
           words == InputWords((rowstride \div 4) * rows, 0)
           buf == NewAddr(heap)
           h == Alloc(heap, words)
           r == IF kind = "rgba"
                THEN ncvisual_from_rgba(h, planes, buf, rows, rowstride, cols,
                                        input.utf8, planeOk, dupOk)
                ELSE ncvisual_from_bgra(h, planes, buf, rows, rowstride, cols,
                                        input.utf8, planeOk, dupOk)
       IN /\ ncv' = r.ncv
          /\ heap' = r.heap
          /\ planes' = r.planes
          /\ input' = [input EXCEPT !.kind = kind, !.addr = buf, !.words = words,
                                    !.rows = rows, !.rowstride = rowstride,
                                    !.cols = cols]
          /\ call' = [op |-> "from_" \o kind, ret |-> IF r.ncv.live THEN 1 ELSE 0]
          /\ hist' = [hist EXCEPT !.made = TRUE, !.ops = @ + 1,
                                  !.forvisual = (1..Len(r.heap)) \ {buf}]
  /\ UNCHANGED <<blits, ncerr, strm, clock>>

\* the caller calls ncvisual_from_plane on one of its planes
LifeFromPlane ==
  /\ Unmade
  /\ \E n \in hist.external, rgbaOk \in BOOLEAN, planeOk \in BOOLEAN,
        dupOk \in BOOLEAN, pdupOk \in BOOLEAN :
       LET r == ncvisual_from_plane(heap, planes, n, input.utf8, rgbaOk, planeOk,
                                    dupOk, pdupOk)
       IN /\ ncv' = r.ncv
          /\ heap' = r.heap
          /\ planes' = r.planes
          /\ input' = [input EXCEPT !.kind = "plane", !.addr = r.rgba,
                                    !.rows = planes[n].rows,
                                    !.rowstride = planes[n].cols * 4,
                                    !.cols = planes[n].cols]
          /\ call' = [op |-> "from_plane", ret |-> IF r.ncv.live THEN 1 ELSE 0]
          /\ hist' = [hist EXCEPT !.made = TRUE, !.ops = @ + 1,
                                  !.forvisual = 1..Len(r.heap)]
  /\ UNCHANGED <<blits, ncerr, strm, clock>>

\* the caller calls ncvisual_from_file
LifeFromFile ==
  /\ Unmade
  /\ \E style \in Styles :
       ncv' = ncvisual_from_file(0, 0, style, input.utf8)
  /\ input' = [input EXCEPT !.kind = "file"]
  /\ call' = [op |-> "from_file", ret |-> 1]
  /\ ncerr' = NCERR_SUCCESS
  /\ hist' = [hist EXCEPT !.made = TRUE, !.ops = @ + 1]
  /\ UNCHANGED <<heap, planes, blits, strm, clock>>

\* the caller calls ncplane_visual_open on one of its planes
LifePlaneVisualOpen ==
  /\ Unmade
  /\ \E n \in hist.external :
       /\ ncv' = ncplane_visual_open(planes, n, input.utf8)
       /\ hist' = [hist EXCEPT !.made = TRUE, !.ops = @ + 1, !.supplied = {n}]
  /\ input' = [input EXCEPT !.kind = "plane_open"]
  /\ call' = [op |-> "plane_visual_open", ret |-> 1]
  /\ ncerr' = NCERR_SUCCESS
  /\ UNCHANGED <<heap, planes, blits, strm, clock>>

\* the caller calls ncvisual_decode
LifeDecode ==
  /\ Usable
  /\ \E got \in {"frame", "AVERROR_EOF"}, fail \in {"none", "plane"} :
       LET r == ncvisual_decode(ncv, heap, planes, got, fail, 7)
       IN /\ ncv' = r.ncv
          /\ heap' = r.heap
          /\ planes' = r.planes
          /\ call' = [op |-> "decode", ret |-> r.err]
  /\ hist' = [hist EXCEPT !.ops = @ + 1]
  /\ UNCHANGED <<input, blits, ncerr, strm, clock>>

\* the caller calls ncvisual_setplane with one of its planes
LifeSetplane ==
  /\ Usable
  /\ \E n \in {p \in hist.external : planes[p].st = "live"} :
       LET r == ncvisual_setplane(ncv, planes, n)
       IN /\ ncv' = r.ncv
          /\ planes' = r.planes
          /\ hist' = [hist EXCEPT !.ops = @ + 1, !.supplied = {p \in hist.external : p \in @ \/ p = n}]
  /\ call' = [op |-> "setplane", ret |-> 0]
  /\ UNCHANGED <<heap, input, blits, ncerr, strm, clock>>

\* the caller calls ncvisual_rotate.  Three steps of it have no defined
\* outcome: the read of ncv->ncp->leny when ncplane_dup has left ncp null; the
\* division by encode_scale in rotate_new_geom when that is 0, which traps or
\* yields 0 rows, the resize to which fails; and a destination that fails an
\* assertion, at which the call aborts.  The call aborts as well at the
\* assertion on the rowstride, which is reached once the new plane is made
LifeRotate ==
  /\ Usable
  /\ LET hasdata == ncv.data # NULL
         noplane == hasdata /\ ncv.ncp = NULL
         resizes == /\ hasdata /\ ~noplane
                    /\ planes[ncv.ncp].cols # planes[ncv.ncp].rows * encoding_vert_scale(ncv)
         divzero == resizes /\ encoding_vert_scale(ncv) = 0
         runs == hasdata /\ ~noplane /\ ~divzero
     IN \E ang \in Angles,
           trap \in IF divzero THEN BOOLEAN ELSE {FALSE},
           resizeOk \in IF resizes /\ ~divzero THEN BOOLEAN ELSE {TRUE},
           newpOk \in IF runs THEN BOOLEAN ELSE {TRUE},
           allocOk \in IF runs THEN BOOLEAN ELSE {TRUE} :
          IF noplane
          THEN /\ call' = [op |-> "rotate", ang |-> ang.rads, signal |-> "SIGSEGV"]
               /\ UNCHANGED <<ncv, heap, planes>>
               /\ hist' = [hist EXCEPT !.ops = @ + 1]
          ELSE IF divzero
          THEN /\ call' = IF trap
                         THEN [op |-> "rotate", ang |-> ang.rads, signal |-> "SIGFPE"]
                         ELSE [op |-> "rotate", ang |-> ang.rads, signal |-> "none",
                               ret |-> -1]
               /\ UNCHANGED <<ncv, heap, planes>>
               /\ hist' = [hist EXCEPT !.ops = @ + 1]
          ELSE
            LET r == ncvisual_rotate(ncv, heap, planes, ang, resizeOk, newpOk, allocOk)
            IN IF resizeOk /\ newpOk /\ ~stride_asserts(ncv)
               THEN /\ call' = [op |-> "rotate", ang |-> ang.rads, signal |-> "SIGABRT",
                                line |-> 195]
                    /\ UNCHANGED <<ncv, heap, planes>>
                    /\ hist' = [hist EXCEPT !.ops = @ + 1]
               ELSE IF r.ret = 0 /\ rotate_failures(ncv, ang) # {}
               THEN /\ call' = [op |-> "rotate", ang |-> ang.rads, signal |-> "SIGABRT",
                                line |-> 214]
                    /\ UNCHANGED <<ncv, heap, planes>>
                    /\ hist' = [hist EXCEPT !.ops = @ + 1]
               ELSE /\ call' = [op |-> "rotate", ang |-> ang.rads, signal |-> "none",
                            ret |-> r.ret]
                    /\ ncv' = r.ncv
                    /\ heap' = r.heap
                    /\ planes' = r.planes
                    /\ hist' = [hist EXCEPT
                                  !.ops = @ + 1,
                                  !.forvisual = IF r.ret = 0
                                                THEN {a \in DOMAIN r.heap :
                                                        a \in @ \/ a = r.ncv.data}
                                                ELSE @,
                                  !.before = [ncv |-> ncv,
                                              words |-> IF ncv.data # NULL
                                                        THEN heap[ncv.data].words
                                                        ELSE <<>>,
                                              planes |-> planes]]
  /\ UNCHANGED <<input, blits, ncerr, strm, clock>>

\* the caller calls ncvisual_destroy
LifeDestroy ==
  /\ ncv.live
  /\ LET r == ncvisual_destroy(ncv, heap, planes)
     IN /\ ncv' = r.ncv
        /\ heap' = r.heap
        /\ planes' = r.planes
  /\ call' = [op |-> "destroy", ret |-> 0]
  /\ hist' = [hist EXCEPT !.destroyed = TRUE]
  /\ UNCHANGED <<input, blits, ncerr, strm, clock>>

NextLife ==
  \/ LifeFromRaw
  \/ LifeFromPlane
  \/ LifeFromFile
  \/ LifePlaneVisualOpen
  \/ LifeDecode
  \/ LifeSetplane
  \/ LifeRotate
  \/ LifeDestroy

SpecLife == InitLife /\ [][NextLife]_vars

(***************************************************************************)
(* Rotations of a visual made from raw memory.                             *)
(***************************************************************************)
\* the largest rows / cols of a buffer that is rotated
RotDim == 4

\* the number of rotations of one visual
MaxRotations == 1

\* the visuals that are rotated: made by ncvisual_from_rgba from a buffer of
\* rows x cols pixels, all different, with or without padding of the rows
RotVisual(rows, cols, pad, utf8) ==
  LET words == InputWords((cols + pad) * rows, 0)
  IN [made |-> ncvisual_from_rgba(Alloc(<<>>, words), <<>>, 1, rows, (cols + pad) * 4,
                                  cols, utf8, TRUE, TRUE),
      input |-> [kind |-> "rgba", addr |-> 1, words |-> words, rows |-> rows,
                 rowstride |-> (cols + pad) * 4, cols |-> cols, utf8 |-> utf8]]

InitRotate ==
  /\ \E rows \in 1..RotDim, cols \in 1..RotDim, pad \in {0, 1}, utf8 \in BOOLEAN :
       LET r == RotVisual(rows, cols, pad, utf8)
       IN /\ ncv = r.made.ncv
          /\ heap = r.made.heap
          /\ planes = r.made.planes
          /\ input = r.input
          /\ hist = [NoLife EXCEPT !.external = {}, !.made = TRUE,
                                   !.ops = MaxOps - MaxRotations,
                                   !.forvisual = {2}]
  /\ call = [op |-> "from_rgba", ret |-> 1]
  /\ blits = <<>>
  /\ ncerr = NCERR_SUCCESS
  /\ strm = IdleStream
  /\ clock = 0

NextRotate == LifeRotate \/ LifeDestroy

SpecRotate == InitRotate /\ [][NextRotate]_vars

(***************************************************************************)
(* bgra_to_rgba.  A uint32_t is the tuple of its four bytes, the least      *)
(* significant first, so that masks and shifts keep the width of 32 bits.  *)
(***************************************************************************)
RECURSIVE ByteAnd(_, _, _)
\* a & b on the low n bits
ByteAnd(a, b, n) ==
  IF n = 0 THEN 0
  ELSE ((a % 2) * (b % 2)) + 2 * ByteAnd(a \div 2, b \div 2, n - 1)

RECURSIVE ByteOr(_, _, _)
\* a | b on the low n bits
ByteOr(a, b, n) ==
  IF n = 0 THEN 0
  ELSE (IF a % 2 = 1 \/ b % 2 = 1 THEN 1 ELSE 0) + 2 * ByteOr(a \div 2, b \div 2, n - 1)

WordAnd(w, m) == [k \in 1..4 |-> ByteAnd(w[k], m[k], 8)]
WordOr(w, u) == [k \in 1..4 |-> ByteOr(w[k], u[k], 8)]

\* w << 16u and w >> 16u on 32 bits: the bits shifted out are lost
WordShl16(w) == <<0, 0, w[1], w[2]>>
WordShr16(w) == <<w[3], w[4], 0, 0>>

\* 0xff00u, 0xff00ffu and 0xff000000
Mask_ff00 == <<0, 255, 0, 0>>
Mask_ff00ff == <<255, 0, 255, 0>>
Mask_ff000000 == <<0, 0, 0, 255>>

\* line 140 as a bug would have it: the term that brings the top byte down
\* left out
bgra_word_without_top(src) ==
  WordOr(WordShl16(WordAnd(src, Mask_ff00)), WordAnd(src, Mask_ff00ff))

\* line 140: the word stored for the word src
bgra_word(src) ==
  WordOr(WordOr(WordShl16(WordAnd(src, Mask_ff00)), WordAnd(src, Mask_ff00ff)),
         WordShr16(WordAnd(src, Mask_ff000000)))

\* a word of malloc'ed memory never written
UninitWord == <<Uninit, Uninit, Uninit, Uninit>>

\* bgra_to_rgba(data, rows, rowstride, cols), for cols * 4 <= rowstride;
\* allocOk tells whether malloc succeeds.  Only cols words of a row are
\* written.
bgra_to_rgba(h, data, rows, rowstride, cols, allocOk) ==
  IF rowstride % 4 # 0 THEN [heap |-> h, ret |-> NULL]
  ELSE IF ~allocOk THEN [heap |-> h, ret |-> NULL]
  ELSE LET perrow == rowstride \div 4
           words == [i \in 1..(perrow * rows) |->
                       IF (i - 1) % perrow < cols
                       THEN bgra_word(h[data].words[i])
                       ELSE UninitWord]
       IN [heap |-> Alloc(h, words), ret |-> NewAddr(h)]

\* the largest rows and cols of a converted buffer, and the number of
\* conversions made one after the other
BgraRows == 2
BgraCols == 2
MaxConversions == 3

\* the pixels of the caller's buffer: the bytes of word i
BgraSeeds == {0, 100, 255}
BgraPixel(seed, i) ==
  <<(seed + i) % 256, (seed + 64 + 2 * i) % 256,
    (seed + 128 + 3 * i) % 256, (seed + 192 + 5 * i) % 256>>

\* hist.chain: the caller's buffer and the results of the conversions since
InitBgra ==
  /\ \E rows \in 1..BgraRows, cols \in 1..BgraCols, pad \in Pads, seed \in BgraSeeds :
       /\ input = [kind |-> "bgra", addr |-> 1, rows |-> rows,
                   rowstride |-> cols * 4 + pad, cols |-> cols]
       /\ heap = Alloc(<<>>, [i \in 1..(((cols * 4 + pad) \div 4) * rows) |->
                                 BgraPixel(seed, i)])
  /\ ncv = ZeroVisual
  /\ planes = <<>>
  /\ call = NoCall
  /\ blits = <<>>
  /\ ncerr = NCERR_SUCCESS
  /\ strm = IdleStream
  /\ clock = 0
  /\ hist = [chain |-> <<1>>, calls |-> 0]

\* the caller converts the buffer it converted last (its own at first)
BgraConvert ==
  /\ hist.calls < MaxConversions
  /\ \E allocOk \in BOOLEAN :
       LET data == hist.chain[Len(hist.chain)]
           r == bgra_to_rgba(heap, data, input.rows, input.rowstride, input.cols, allocOk)
       IN /\ heap' = r.heap
          /\ call' = [op |-> "bgra_to_rgba", data |-> data, ret |-> r.ret]
          /\ hist' = [chain |-> IF r.ret # NULL THEN Append(hist.chain, r.ret)
                                ELSE hist.chain,
                      calls |-> hist.calls + 1]
  /\ UNCHANGED <<ncv, planes, input, blits, ncerr, strm, clock>>

NextBgra == BgraConvert

SpecBgra == InitBgra /\ [][NextBgra]_vars

(***************************************************************************)
(* The OpenImageIO build (lines 850-993).  Its struct has, besides the     *)
(* members of ZeroVisual, frame (the unique_ptr of the pixels read), scaled *)
(* (the storage of the ImageBuf scaled) and image, of which the model      *)
(* keeps current_subimage.  The container is the sequence of its           *)
(* sub-images, each [nchannels, height, width]; sub-image k is subs[k + 1]. *)
(***************************************************************************)
OiioMembers == [frame |-> NULL, scaled |-> NULL, current_subimage |-> 0]

\* ncvisual_open(filename, err) when the file opens
ncvisual_open_oiio == [ZeroVisual EXCEPT !.live = TRUE, !.timescale = 1] @@ OiioMembers

\* ncvisual_from_file(nc, filename, ncerr, y, x, style)
ncvisual_from_file_oiio(y, x, style, utf8) ==
  [set_encoding_vert_scale(utf8, ncvisual_open_oiio)
     EXCEPT !.placey = y, !.placex = x, !.style = style, !.ncobj = TRUE, !.ncp = NULL]

\* ncplane_visual_open(nc, filename, ncerr)
ncplane_visual_open_oiio(ps, n, utf8) ==
  LET v == set_encoding_vert_scale(utf8, ncvisual_open_oiio)
  IN [v EXCEPT !.dstheight = ps[n].rows * encoding_vert_scale(v),
               !.dstwidth = ps[n].cols, !.ncp = n,
               !.style = NCSCALE_STRETCH, !.ncobj = FALSE]

\* ImageInput::spec_dimensions(subimage): an empty ImageSpec when there is
\* no such sub-image
spec_dimensions(subs, k) ==
  IF k < Len(subs) THEN subs[k + 1] ELSE [nchannels |-> 0, height |-> 0, width |-> 0]

\* ImageInput::seek_subimage(subimage, 0, newspec)
seek_subimage(subs, k) == k < Len(subs)

\* ImageInput::read_image(subimage, ...): ioOk tells whether reading an
\* existing sub-image succeeds
read_image(subs, k, ioOk) == k < Len(subs) /\ ioOk

\* line 918 as a bug would have it: the seek made on the first call too
oiio_seeks_always(v) == TRUE

\* line 918: if(nc->frame)
oiio_seeks(v) == v.frame # NULL

\* the pixels of sub-image k: word i is SubBase * (k + 1) + i
SubBase == 100
SubWords(k, spec) == [i \in 1..(spec.width * spec.height) |-> SubBase * (k + 1) + i]

\* make_unique<uint32_t[]>(pixels): value-initialised
ZeroWords(spec) == [i \in 1..(spec.width * spec.height) |-> 0]

\* ImageBufAlgo::resize(scaled, raw, "", 0, roi): every pixel of the result
\* comes from the pixel of the source at the same relative place (the
\* blending of the filter is left out)
resize_words(words, spec, dsth, dstw) ==
  [i \in 1..(dsth * dstw) |->
     LET y == (i - 1) \div dstw
         x == (i - 1) % dstw
     IN words[((y * spec.height) \div dsth) * spec.width + ((x * spec.width) \div dstw) + 1]]

\* lines 951-975: as decode_geometry, from the size of the sub-image
oiio_geometry(v, ps, spec, planeOk) ==
  IF v.ncp = NULL
  THEN IF v.style # NCSCALE_NONE /\ (v.placey >= TermRows \/ v.placex >= TermCols)
       THEN [err |-> NCERR_DECODE, ncv |-> v, planes |-> ps]
       ELSE
         LET rows == IF v.style = NCSCALE_NONE
                     THEN spec.height \div encoding_vert_scale(v)
                     ELSE TermRows - v.placey
             cols == IF v.style = NCSCALE_NONE THEN spec.width ELSE TermCols - v.placex
             np == ncplane_new(ps, rows, cols, planeOk)
             v1 == [v EXCEPT !.dstwidth = cols,
                             !.dstheight = rows * encoding_vert_scale(v),
                             !.ncp = np.ncp, !.placey = 0, !.placex = 0]
         IN [err |-> IF np.ncp = NULL THEN NCERR_NOMEM ELSE NCERR_SUCCESS,
             ncv |-> v1, planes |-> np.planes]
  ELSE
    LET rows == ps[v.ncp].rows
        cols == ps[v.ncp].cols
    IN [err |-> NCERR_SUCCESS,
        ncv |-> IF rows # v.dstheight \div encoding_vert_scale(v) \/ cols # v.dstwidth
                THEN [v EXCEPT !.dstheight = rows * encoding_vert_scale(v),
                               !.dstwidth = cols]
                ELSE v,
        planes |-> ps]

\* ncvisual_decode(nc) of the OpenImageIO build; ioOk, planeOk and resizeOk
\* tell whether read_image, ncplane_new and ImageBufAlgo::resize succeed
ncvisual_decode_oiio(v, h, ps, subs, ioOk, planeOk, resizeOk) ==
  LET spec == spec_dimensions(subs, v.framenum)
      target == v.current_subimage + 1
  IN IF oiio_seeks(v) /\ ~seek_subimage(subs, target)
     THEN [err |-> NCERR_EOF, ncv |-> v, heap |-> h, planes |-> ps]
     ELSE
       LET v0 == IF oiio_seeks(v) THEN [v EXCEPT !.current_subimage = target] ELSE v
       IN IF spec.nchannels < 3 \/ spec.nchannels > 4
          THEN [err |-> NCERR_DECODE, ncv |-> v0, heap |-> h, planes |-> ps]
          ELSE
            LET h0 == Free(h, v0.frame)
                read == read_image(subs, v0.framenum, ioOk)
                h1 == Alloc(h0, IF read THEN SubWords(v0.framenum, spec)
                                ELSE ZeroWords(spec))
                v1 == [v0 EXCEPT !.frame = NewAddr(h0),
                                 !.framenum = @ + 1,
                                 !.current_subimage =
                                    IF v0.framenum < Len(subs) THEN v0.framenum ELSE @]
            IN IF ~read
               THEN [err |-> NCERR_DECODE, ncv |-> v1, heap |-> h1, planes |-> ps]
               ELSE
                 LET g == oiio_geometry(v1, ps, spec, planeOk)
                 IN IF g.err # NCERR_SUCCESS
                    THEN [err |-> g.err, ncv |-> g.ncv, heap |-> h1, planes |-> g.planes]
                    ELSE
                      LET sd == ncvisual_set_data(g.ncv, h1, g.ncv.frame, FALSE)
                      IN IF sd.ncv.dstwidth # spec.width \/ sd.ncv.dstheight # spec.height
                         THEN IF ~resizeOk
                              THEN [err |-> NCERR_DECODE, ncv |-> sd.ncv,
                                    heap |-> sd.heap, planes |-> g.planes]
                              ELSE
                                LET h2 == Free(sd.heap, sd.ncv.scaled)
                                    h3 == Alloc(h2, resize_words(h2[sd.ncv.frame].words, spec,
                                                                 sd.ncv.dstheight,
                                                                 sd.ncv.dstwidth))
                                    v3 == [sd.ncv EXCEPT !.scaled = NewAddr(h2),
                                                         !.rowstride = sd.ncv.dstwidth * 4]
                                    s2 == ncvisual_set_data(v3, h3, v3.scaled, FALSE)
                                IN [err |-> NCERR_SUCCESS, ncv |-> s2.ncv,
                                    heap |-> s2.heap, planes |-> g.planes]
                         ELSE [err |-> NCERR_SUCCESS,
                               ncv |-> [sd.ncv EXCEPT !.rowstride = sd.ncv.dstwidth * 4],
                               heap |-> sd.heap, planes |-> g.planes]

\* the most sub-images of a container
MaxSubimages == 2

\* the channels a sub-image may have, and the sizes (height, width) of the
\* sub-images of a container
ChannelCounts == {1, 3, 4}
SubSizes == {<<2, 2>>, <<2, 1>>, <<3, 2>>}

Containers ==
  UNION {[1..n -> ChannelCounts] : n \in 1..MaxSubimages}

\* the sub-image delivered: the one the pixels of ncv->data come from
Delivered(v, h) == (h[v.data].words[1] \div SubBase) - 1

\* hist.rets: what each ncvisual_decode returned; hist.deliv: the sub-image
\* each delivered (Uninit when it failed); hist.clean: no read_image,
\* ncplane_new or resize has failed
InitOiio ==
  /\ \E ch \in Containers, sz \in SubSizes, utf8 \in BOOLEAN :
       LET subs == [k \in DOMAIN ch |->
                      [nchannels |-> ch[k], height |-> sz[1], width |-> sz[2]]]
       IN \/ /\ planes = <<>>
             /\ \E style \in Styles, y \in {0, TermRows} :
                  /\ ncv = ncvisual_from_file_oiio(y, 0, style, utf8)
                  /\ input = [kind |-> "oiio", utf8 |-> utf8, subs |-> subs,
                              style |-> style, y |-> y, x |-> 0]
             /\ call = [op |-> "from_file", ret |-> 1]
          \/ /\ planes = CallerPlanes
             /\ \E n \in DOMAIN CallerPlanes :
                  /\ ncv = ncplane_visual_open_oiio(CallerPlanes, n, utf8)
                  /\ call = [op |-> "plane_visual_open", n |-> n, ret |-> 1]
             /\ input = [kind |-> "oiio", utf8 |-> utf8, subs |-> subs,
                         style |-> NCSCALE_STRETCH, y |-> 0, x |-> 0]
  /\ heap = <<>>
  /\ blits = <<>>
  /\ ncerr = NCERR_SUCCESS
  /\ strm = IdleStream
  /\ clock = 0
  /\ hist = [rets |-> <<>>, deliv |-> <<>>, clean |-> TRUE]

\* the caller calls ncvisual_decode
OiioDecode ==
  /\ ncv.live
  /\ Len(hist.rets) < Len(input.subs) + 2
  /\ \E ioOk \in BOOLEAN, planeOk \in BOOLEAN, resizeOk \in BOOLEAN :
       LET r == ncvisual_decode_oiio(ncv, heap, planes, input.subs, ioOk, planeOk, resizeOk)
       IN /\ ncv' = r.ncv
          /\ heap' = r.heap
          /\ planes' = r.planes
          /\ call' = [op |-> "decode", ret |-> r.err]
          /\ hist' = [rets |-> Append(hist.rets, r.err),
                      deliv |-> Append(hist.deliv,
                                       IF r.err = NCERR_SUCCESS
                                       THEN Delivered(r.ncv, r.heap) ELSE Uninit),
                      clean |-> hist.clean /\ ioOk /\ planeOk /\ resizeOk]
  /\ UNCHANGED <<input, blits, ncerr, strm, clock>>

NextOiio == OiioDecode

SpecOiio == InitOiio /\ [][NextOiio]_vars

(***************************************************************************)
(* The packet loop of ncvisual_decode of the FFmpeg build (lines 467-515), *)
(* step by step.  The source is the sequence of the streams its units      *)
(* belong to; strm holds the position in the source, the unit nc->packet   *)
(* holds (0 when it is blank), the locals of the innermost activation and   *)
(* the number of activations of ncvisual_decode under the caller's.        *)
(***************************************************************************)
\* the most units of a source, calls of the caller, and activations of
\* ncvisual_decode the stack has room for under the caller's
MaxPackets == 2
MaxCalls == 2
MaxDepth == 3

PacketStreams == {"video", "other"}

PacketSources == UNION {[1..n -> PacketStreams] : n \in 0..MaxPackets}

PacketLoop(pkts) ==
  [pc |-> "idle", pkts |-> pkts, pos |-> 0, held |-> 0, unref |-> FALSE, depth |-> 0]

\* hist.calls: calls made by the caller; hist.reads: units read during the
\* current call; hist.sent: a send succeeded during the current call;
\* hist.readheld: a unit was read while the marker was not 0 or while the
\* unit read before was not released
InitPackets ==
  /\ \E pkts \in PacketSources : strm = PacketLoop(pkts)
  /\ \E utf8 \in BOOLEAN :
       /\ ncv = ncvisual_from_file(0, 0, NCSCALE_NONE, utf8)
       /\ input = [kind |-> "file", utf8 |-> utf8]
  /\ heap = <<>>
  /\ planes = <<>>
  /\ call = [op |-> "from_file", ret |-> 1]
  /\ blits = <<>>
  /\ ncerr = NCERR_SUCCESS
  /\ clock = 0
  /\ hist = [calls |-> 0, reads |-> 0, sent |-> FALSE, readheld |-> FALSE]

\* lines 467-474: the caller calls ncvisual_decode on a file-backed visual
PktCall ==
  /\ strm.pc = "idle"
  /\ hist.calls < MaxCalls
  /\ ncv.fmtctx
  /\ strm' = [strm EXCEPT !.pc = "inner", !.unref = FALSE, !.depth = 0]
  /\ call' = [op |-> "decode"]
  /\ hist' = [hist EXCEPT !.calls = @ + 1, !.reads = 0, !.sent = FALSE]
  /\ UNCHANGED <<ncv, heap, planes, input, blits, ncerr, clock>>

\* lines 476-493: one turn of the inner loop; readOk tells whether
\* av_read_frame succeeds when a unit is left
PktInner ==
  /\ strm.pc = "inner"
  /\ IF ncv.packet_outstanding # 0
     THEN /\ strm' = [strm EXCEPT !.pc = "send"]
          /\ UNCHANGED <<call, hist>>
     ELSE LET held == IF strm.unref THEN 0 ELSE strm.held
          IN \E readOk \in BOOLEAN :
               IF strm.pos = Len(strm.pkts) \/ ~readOk
               THEN /\ strm' = [strm EXCEPT !.pc = "idle", !.held = held, !.depth = 0]
                    /\ call' = [op |-> "decode",
                                ret |-> IF strm.pos = Len(strm.pkts)
                                        THEN averr2ncerr("AVERROR_EOF")
                                        ELSE averr2ncerr("AVERROR_EIO")]
                    /\ UNCHANGED hist
               ELSE /\ strm' = [strm EXCEPT
                                  !.pc = IF strm.pkts[strm.pos + 1] = "video"
                                         THEN "send" ELSE "inner",
                                  !.pos = @ + 1, !.held = strm.pos + 1, !.unref = TRUE]
                    /\ hist' = [hist EXCEPT !.reads = @ + 1,
                                            !.readheld = @ \/ ncv.packet_outstanding # 0
                                                           \/ held # 0]
                    /\ UNCHANGED call
  /\ UNCHANGED <<ncv, heap, planes, input, blits, ncerr, clock>>

\* lines 494-499: the marker is raised and the unit sent; when
\* avcodec_send_packet fails ncvisual_decode calls itself, and the stack runs
\* out when there is no room for one more activation (a build that turns the
\* call into a jump goes on without end instead)
PktSend ==
  /\ strm.pc = "send"
  /\ \E sendOk \in BOOLEAN :
       IF sendOk
       THEN /\ ncv' = [ncv EXCEPT !.packet_outstanding = (@ + 1) - 1]
            /\ strm' = [strm EXCEPT !.pc = "receive", !.held = 0]
            /\ hist' = [hist EXCEPT !.sent = TRUE]
       ELSE /\ ncv' = [ncv EXCEPT !.packet_outstanding = @ + 1]
            /\ strm' = IF strm.depth = MaxDepth
                       THEN [strm EXCEPT !.pc = "exhausted"]
                       ELSE [strm EXCEPT !.pc = "inner", !.unref = FALSE, !.depth = @ + 1]
            /\ UNCHANGED hist
  /\ UNCHANGED <<heap, planes, input, call, blits, ncerr, clock>>

\* lines 500-515: avcodec_receive_frame gives a frame (the call goes on to
\* scale it and returns), asks for more input, or fails
PktReceive ==
  /\ strm.pc = "receive"
  /\ \E averr \in {"frame", "AVERROR_EAGAIN", "AVERROR_EOF", "AVERROR_INVALIDDATA"} :
       IF averr = "frame"
       THEN /\ strm' = [strm EXCEPT !.pc = "idle", !.depth = 0]
            /\ call' = [op |-> "decode", ret |-> NCERR_SUCCESS]
       ELSE IF averr \in {"AVERROR_EAGAIN", "AVERROR_EOF"}
       THEN /\ strm' = [strm EXCEPT !.pc = "inner"]
            /\ UNCHANGED call
       ELSE /\ strm' = [strm EXCEPT !.pc = "idle", !.depth = 0]
            /\ call' = [op |-> "decode", ret |-> averr2ncerr(averr)]
  /\ UNCHANGED <<ncv, heap, planes, input, blits, ncerr, clock, hist>>

NextPackets == PktCall \/ PktInner \/ PktSend \/ PktReceive

SpecPackets == InitPackets /\ [][NextPackets]_vars

(***************************************************************************)
(* Rotations of a visual made from raw memory whose rows may be longer     *)
(* than the rowstride the caller gives.                                    *)
(***************************************************************************)
\* the calls made on one such visual after its constructor
MaxStrideOps == 2

\* rowstride / 4 - cols of the caller's arguments: ncvisual_from_rgba takes
\* every rowstride that is a multiple of 4
StridePads == {-1, 0}

InitStride ==
  /\ \E rows \in 1..MaxDim, cols \in 2..(MaxDim + 1), pad \in StridePads, utf8 \in BOOLEAN :
       LET r == RotVisual(rows, cols, pad, utf8)
       IN /\ ncv = r.made.ncv
          /\ heap = r.made.heap
          /\ planes = r.made.planes
          /\ input = r.input
          /\ hist = [NoLife EXCEPT !.external = {}, !.made = TRUE,
                                   !.ops = MaxOps - MaxStrideOps,
                                   !.forvisual = {2}]
  /\ call = [op |-> "from_rgba", ret |-> 1]
  /\ blits = <<>>
  /\ ncerr = NCERR_SUCCESS
  /\ strm = IdleStream
  /\ clock = 0

NextStride == LifeDecode \/ LifeRotate \/ LifeDestroy

SpecStride == InitStride /\ [][NextStride]_vars

(***************************************************************************)
(* The frames of one visual made by ncvisual_from_file of the FFmpeg       *)
(* build: decodes that succeed or fail at any step, a rotation, and the     *)
(* caller resizing the visual's plane between them.                        *)
(***************************************************************************)
\* the calls made on one such visual after its constructor, and the times
\* the caller resizes its plane
MaxFrameOps == 4
MaxResizes == 1

\* line 532: the placement ncplane_new is given for the plane of the visual
decode_plane_at(v) == <<v.placey, v.placex>>

\* what has been done to the visual, as in NoLife, and: the decodes that
\* succeeded, the buffer, its pixels and the plane of the visual before the
\* last decode, what the packet loop of that decode ended with, the
\* placement of the plane decode made, and the resizes by the caller
NoFrames ==
  [decoded |-> 0, pre |-> [data |-> NULL, words |-> <<>>, ncp |-> NULL],
   got |-> "none", placed |-> <<>>, resizes |-> 0]
  @@ [NoLife EXCEPT !.external = {}, !.made = TRUE, !.ops = MaxOps - MaxFrameOps]

\* the placements (y, x) the caller asks ncvisual_from_file for: the origin,
\* one inside the terminal, one below it and one to the right of it
Placements == {<<0, 0>>, <<TermRows - 1, TermCols - 1>>, <<TermRows, 0>>, <<0, TermCols>>}

InitFrames ==
  /\ \E yx \in Placements, style \in Styles, utf8 \in BOOLEAN :
       /\ ncv = ncvisual_from_file(yx[1], yx[2], style, utf8)
       /\ input = [kind |-> "file", utf8 |-> utf8, y |-> yx[1], x |-> yx[2],
                   style |-> style]
  /\ heap = <<>>
  /\ planes = <<>>
  /\ call = [op |-> "from_file", ret |-> 1]
  /\ blits = <<>>
  /\ ncerr = NCERR_SUCCESS
  /\ strm = IdleStream
  /\ clock = 0
  /\ hist = NoFrames

\* the caller calls ncvisual_decode; ncplane_new can fail only when the
\* visual has no plane yet
FrameDecode ==
  /\ Usable
  /\ \E got \in {"frame", "AVERROR_EOF"} :
       \E fail \in IF got # "frame" THEN {"none"}
                    ELSE IF ncv.ncp = NULL THEN {"none", "plane", "sws", "alloc", "scale"}
                    ELSE {"none", "sws", "alloc", "scale"} :
         LET r == ncvisual_decode(ncv, heap, planes, got, fail, hist.decoded + 1)
         IN /\ ncv' = r.ncv
            /\ heap' = r.heap
            /\ planes' = r.planes
            /\ call' = [op |-> "decode", ret |-> r.err]
            /\ hist' = [hist EXCEPT
                          !.ops = @ + 1,
                          !.decoded = IF r.err = NCERR_SUCCESS THEN @ + 1 ELSE @,
                          !.pre = [data |-> ncv.data,
                                   words |-> IF ncv.data # NULL
                                             THEN heap[ncv.data].words ELSE <<>>,
                                   ncp |-> ncv.ncp],
                          !.got = got,
                          !.placed = IF ncv.ncp = NULL /\ r.ncv.ncp # NULL
                                     THEN decode_plane_at(ncv) ELSE @]
  /\ UNCHANGED <<input, blits, ncerr, strm, clock>>

\* the caller resizes the plane it got from ncvisual_plane(ncv), to one
\* column or to one more than the terminal has; the next decode reads the
\* size back with ncplane_dim_yx (line 540)
CallerResize ==
  /\ ncv.live
  /\ ncv.ncp # NULL
  /\ planes[ncv.ncp].st = "live"
  /\ hist.resizes < MaxResizes
  /\ \E rows \in 1..TermRows, cols \in {1, TermCols + 1} :
       /\ <<rows, cols>> # <<planes[ncv.ncp].rows, planes[ncv.ncp].cols>>
       /\ planes' = [planes EXCEPT ![ncv.ncp].rows = rows, ![ncv.ncp].cols = cols]
  /\ call' = [op |-> "resize", ret |-> 0]
  /\ hist' = [hist EXCEPT !.resizes = @ + 1]
  /\ UNCHANGED <<ncv, heap, input, blits, ncerr, strm, clock>>

\* the caller calls ncvisual_rotate, once it has run at most
FrameRotate == ~hist.before.ncv.live /\ LifeRotate

NextFrames == FrameDecode \/ CallerResize \/ FrameRotate

SpecFrames == InitFrames /\ [][NextFrames]_vars

(***************************************************************************)
(* deass (lines 412-443).  A C string is the sequence of its characters;   *)
(* the terminator is at Len + 1, and a pointer into the string is an index. *)
(***************************************************************************)
DialoguePrefix == <<"D", "i", "a", "l", "o", "g", "u", "e", ":">>

\* strncmp(s, p, strlen(p)) == 0
strncmp_eq(s, p) == Len(s) >= Len(p) /\ SubSeq(s, 1, Len(p)) = p

\* strchr(s + from - 1, ch): the index of the first ch at or after from, 0
\* when there is none before the terminator
strchr(s, from, ch) ==
  LET hits == {i \in from..Len(s) : s[i] = ch}
  IN IF hits = {} THEN 0 ELSE CHOOSE i \in hits : \A j \in hits : i <= j

\* line 422: commas < 8
WantedCommas == 8

RECURSIVE skip_commas(_, _, _)
\* lines 422-425: the loop from delim and commas on
skip_commas(ass, delim, commas) ==
  IF delim # 0 /\ commas < WantedCommas
  THEN skip_commas(ass, strchr(ass, delim + 1, ","), commas + 1)
  ELSE delim

RECURSIVE blank_escapes(_, _)
\* lines 432-441: the loop from c on; past tells that c went beyond the
\* terminator, where while(*c) reads outside the string
blank_escapes(dup, c) ==
  IF c = Len(dup) + 1 THEN [text |-> dup, past |-> FALSE]
  ELSE IF c > Len(dup) + 1 THEN [text |-> dup, past |-> TRUE]
  ELSE IF dup[c] = "\\"
       THEN LET d1 == [dup EXCEPT ![c] = " "]
                d2 == IF c + 1 <= Len(dup) THEN [d1 EXCEPT ![c + 1] = " "] ELSE d1
            IN blank_escapes(d2, c + 2)
       ELSE blank_escapes(dup, c + 1)

\* deass(ass) when strdup succeeds: null tells that nullptr is returned
deass(ass) ==
  IF ~strncmp_eq(ass, DialoguePrefix) THEN [null |-> TRUE, text |-> <<>>, past |-> FALSE]
  ELSE LET delim == skip_commas(ass, strchr(ass, 1, ","), 0)
       IN IF delim = 0 THEN [null |-> TRUE, text |-> <<>>, past |-> FALSE]
          ELSE LET b == blank_escapes(SubSeq(ass, delim + 1, Len(ass)), 1)
               IN [null |-> FALSE, text |-> b.text, past |-> b.past]

\* the most commas of the leading fields of a line, and the most characters
\* of what follows them
MaxCommas == 10
MaxText == 3

TextChars == {",", "\\", "a"}

Texts == UNION {[1..n -> TextChars] : n \in 0..MaxText}

RECURSIVE Fields(_, _)
\* n leading fields, each the characters of field, each closed by a comma
Fields(n, field) == IF n = 0 THEN <<>> ELSE field \o <<",">> \o Fields(n - 1, field)

\* the lines given to deass
InitDeass ==
  /\ \E prefix \in {DialoguePrefix, <<"D", "i", "a", "l", "o", "g", "u", "e">>, <<>>},
        n \in 0..MaxCommas, field \in {<<>>, <<"a">>}, text \in Texts :
       input = [kind |-> "ass", ass |-> prefix \o Fields(n, field) \o text]
  /\ ncv = ZeroVisual
  /\ heap = <<>>
  /\ planes = <<>>
  /\ call = NoCall
  /\ blits = <<>>
  /\ ncerr = NCERR_SUCCESS
  /\ strm = IdleStream
  /\ clock = 0
  /\ hist = [calls |-> 0]

\* ncvisual_subtitle calls deass on the line of an ASS rectangle.  When
\* strdup fails the loop reads through a null pointer; when c goes beyond the
\* terminator the loop reads, and may write, outside the string.
Deass ==
  /\ hist.calls = 0
  /\ \E dupOk \in BOOLEAN, outside \in {"overread", "overwrite"} :
       LET r == deass(input.ass)
       IN call' = IF ~r.null /\ ~dupOk
                  THEN [op |-> "deass", signal |-> "SIGSEGV", ub |-> "none"]
                  ELSE [op |-> "deass", signal |-> "none", null |-> r.null,
                        text |-> r.text, ub |-> IF r.past THEN outside ELSE "none"]
  /\ hist' = [calls |-> 1]
  /\ UNCHANGED <<ncv, heap, planes, input, blits, ncerr, strm, clock>>

NextDeass == Deass

SpecDeass == InitDeass /\ [][NextDeass]_vars

(***************************************************************************)
(* Properties of ncvisual_render and of the constructors from raw memory.  *)
(***************************************************************************)
\* the lengths of the last render request after the defaulting of -1
ReqLenY == DefaultLen(call.leny, ncv.dstheight, call.begy)
ReqLenX == DefaultLen(call.lenx, ncv.dstwidth, call.begx)

\* the last render request has its origin inside the buffer
OriginInside ==
  /\ 0 <= call.begy /\ call.begy < ncv.dstheight
  /\ 0 <= call.begx /\ call.begx < ncv.dstwidth

\* the last render request passes the validation of section 4.5
RequestValid ==
  /\ ncv.data # NULL
  /\ OriginInside
  /\ call.leny >= -1 /\ call.lenx >= -1
  /\ call.begy + ReqLenY <= ncv.dstheight
  /\ call.begx + ReqLenX <= ncv.dstwidth

\* C1: a render whose origin is negative, whose origin is not inside
\* [0,dstheight) x [0,dstwidth), or whose origin + length exceeds dstheight or
\* dstwidth returns -1 and calls ncblit_rgba not at all.
C1_RenderRejectsOutOfBounds ==
  (/\ call.op = "render"
   /\ \/ ~OriginInside
      \/ call.begy + ReqLenY > ncv.dstheight
      \/ call.begx + ReqLenX > ncv.dstwidth)
  => (call.ret = -1 /\ blits = <<>>)

\* C2: a render with an explicit zero length and an otherwise valid request,
\* on a visual that holds a buffer, returns 0 and calls ncblit_rgba not at all.
C2_ZeroLengthIsNoOp ==
  (/\ call.op = "render"
   /\ RequestValid
   /\ (call.leny = 0 \/ call.lenx = 0))
  => (call.ret = 0 /\ blits = <<>>)

FullRenderOfRaw ==
  /\ call.op = "render"
  /\ input.kind \in {"rgba", "bgra"}
  /\ call.begy = 0 /\ call.begx = 0 /\ call.leny = -1 /\ call.lenx = -1

\* C4: render(0, 0, -1, -1) on a visual built by ncvisual_from_rgba or
\* ncvisual_from_bgra hands ncblit_rgba the pixels of the input, word for word,
\* with the input's rowstride and the window rows x cols, in a live buffer the
\* visual owns that is not the caller's memory.
C4_RawRoundTrip ==
  FullRenderOfRaw =>
    /\ Len(blits) = 1
    /\ blits[1].words = input.words
    /\ blits[1].rowstride = input.rowstride
    /\ blits[1].begy = 0 /\ blits[1].begx = 0
    /\ blits[1].leny = input.rows /\ blits[1].lenx = input.cols
    /\ blits[1].data # input.addr
    /\ heap[blits[1].data].st = "live"
    /\ ncv.owndata

\* a padded BGRA buffer was rendered in full after its caller wrote over it
C4_Witness ==
  /\ FullRenderOfRaw
  /\ input.kind = "bgra"
  /\ input.rowstride > input.cols * 4
  /\ heap[input.addr].words # input.words
  /\ Len(blits) = 1

(***************************************************************************)
(* Properties of ncvisual_stream.                                          *)
(***************************************************************************)
\* the stream has returned because the callback returned a nonzero code
StoppedByCallback == strm.pc = "done" /\ hist.cbret # 0

\* the stream has returned and the callback never asked it to
EndedWithoutStop == strm.pc = "done" /\ hist.cbret = 0

\* the error the source's ending maps to
TermErr ==
  CASE strm.src.term = "AVERROR_EOF" -> NCERR_EOF
    [] strm.src.term = "AVERROR_INVALIDDATA" -> NCERR_DECODE
    [] strm.src.term = "alloc" -> NCERR_NOMEM

\* a render of the running stream has failed
RenderFailed == hist.renders # hist.renderoks

\* C5: when the callback returns a nonzero code on frame K, it has been called
\* K times, K decodes and K renders and K - 1 pacing steps have been made, the
\* callback was the last step, nothing of the stream can happen any more and
\* the stream has returned that code.
C5_CallbackStopsStream ==
  StoppedByCallback =>
    /\ strm.ret = hist.cbret
    /\ hist.callbacks = strm.frame
    /\ hist.decodecalls = strm.frame
    /\ hist.renders = strm.frame
    /\ hist.paces = strm.frame - 1
    /\ hist.steps = <<"decode", "render", "callback">>
    /\ ~ENABLED NextStream

\* the callback returned 5 on frame 2, after a sleep
C5_Witness ==
  /\ StoppedByCallback
  /\ strm.frame = 2
  /\ hist.cbret = 5
  /\ hist.sleeps = 1

\* C6: when the callback never asks for the end, the stream returns 0 or -1,
\* and 0 exactly when the decode that ended the loop returned NCERR_EOF; a
\* failed render gives -1; *ncerr holds what the last decode returned.
C6_StreamResult ==
  EndedWithoutStop =>
    /\ strm.ret \in {0, -1}
    /\ (strm.ret = 0) <=> (~RenderFailed /\ TermErr = NCERR_EOF)
    /\ ncerr = IF RenderFailed THEN NCERR_SUCCESS ELSE TermErr
    /\ ncerr = hist.lastdecode

\* the third decode could not allocate and the stream returned -1
C6_Witness ==
  /\ EndedWithoutStop
  /\ hist.decodes = 2
  /\ ncerr = NCERR_NOMEM
  /\ strm.ret = -1

\* the steps made for the current frame come in the order decode, render,
\* callback, pacing; the callback is only called after a decode and a render
\* that succeeded, and the render it follows was of the full frame
StepOrder ==
  /\ \A i \in DOMAIN hist.steps :
       /\ hist.steps[i] \in {"decode", "decode failed"} => i = 1
       /\ hist.steps[i] \in {"render", "render failed"} =>
            i = 2 /\ hist.steps[1] = "decode"
       /\ hist.steps[i] = "callback" =>
            i = 3 /\ hist.steps[1] = "decode" /\ hist.steps[2] = "render"
       /\ hist.steps[i] \in {"sleep", "no sleep"} =>
            /\ i = IF strm.hascb THEN 4 ELSE 3
            /\ hist.steps[i - 1] = IF strm.hascb THEN "callback" ELSE "render"
  /\ hist.callbacks <= hist.renderoks
  /\ hist.renderoks <= hist.decodes
  /\ strm.pc = "callback" =>
       /\ Len(blits) = 1
       /\ blits[1].begy = 0 /\ blits[1].begx = 0
       /\ blits[1].leny = ncv.dstheight /\ blits[1].lenx = ncv.dstwidth

\* the stream of a source of N frames and then the end, with a callback that
\* always returns 0, has returned
EndOfSource ==
  /\ EndedWithoutStop
  /\ strm.hascb
  /\ strm.src.term = "AVERROR_EOF"

\* C7 as claimed: the steps of a frame are decode, render, callback in that
\* order, no callback follows a failed decode or render, and for a source of N
\* frames and then the end the callback has been called N times at the return.
C7_CallbackPerFrame ==
  /\ StepOrder
  /\ EndOfSource => hist.callbacks = strm.src.n

\* C7 as amended: the same, with N callbacks when every render succeeded; a
\* failed render of frame j ends the stream with -1 after j - 1 callbacks.
C7_CallbackPerRenderedFrame ==
  /\ StepOrder
  /\ (EndOfSource /\ ~RenderFailed) => (hist.callbacks = strm.src.n /\ strm.ret = 0)
  /\ (EndOfSource /\ RenderFailed) =>
       /\ hist.callbacks = hist.renders - 1
       /\ hist.callbacks < strm.src.n
       /\ strm.ret = -1

\* a source of 2 frames was streamed to its end with 2 callbacks
C7_Witness ==
  /\ EndOfSource
  /\ ~RenderFailed
  /\ strm.src.n = 2
  /\ hist.callbacks = 2
  /\ strm.ret = 0

\* C8: without timestamps, after the pacing step of the k-th frame the clock
\* is at least the start plus the sum of the first k durations x timescale.
C8_DurationPacing ==
  (strm.pc # "idle" /\ ~strm.usets /\ hist.paces >= 1) =>
    clock >= strm.nsbegin + hist.exact

\* the pacing step of a frame has just been made
JustPaced == strm.pc = "decode" /\ hist.paces >= 1

\* the time the frame just paced was due
DueTime ==
  IF strm.usets
  THEN strm.nsbegin + strm.ts * strm.tbns * ncv.timescale
  ELSE strm.nsbegin + strm.sum_duration

C10_NoBackendUnimplemented ==
  /\ call.op = "ncvisual_decode" => call.ret = NCERR_UNIMPLEMENTED
  /\ call.op = "ncvisual_stream" => (call.ret # 0 /\ ncerr = NCERR_UNIMPLEMENTED)
  /\ call.op \in {"ncvisual_from_file", "ncplane_visual_open"} =>
       (call.ret = NULL /\ ncerr = NCERR_UNIMPLEMENTED)
  /\ call.op \in {"notcurses_canopen_images", "notcurses_canopen_videos"} =>
       call.ret = FALSE

(***************************************************************************)
(* Properties of the life of a visual.                                     *)
(***************************************************************************)
\* the visual is no more: its constructor failed, or it has been destroyed
Gone == hist.made /\ ~ncv.live

\* the planes the visual made itself
OwnPlanes == DOMAIN planes \ hist.external

\* C11: a plane of the caller that was handed to ncplane_visual_open or to
\* ncvisual_setplane is live, whatever decode, setplane, rotate and destroy
\* have been called on the visual since.
C11_SuppliedPlaneNeverDestroyed ==
  \A p \in hist.supplied : planes[p].st = "live"

\* C12: no plane the visual made itself is destroyed twice, and once the visual
\* is gone every one of them has been destroyed.
C12_OwnPlanesDestroyedOnce ==
  /\ \A p \in OwnPlanes : planes[p].st # "doubledestroyed"
  /\ Gone => \A p \in OwnPlanes : planes[p].st = "destroyed"

\* C13: no buffer is freed twice; a buffer the visual owns is live; the frame
\* the visual borrows from the decoder is not freed while the decoder holds it;
\* and once the visual is gone every buffer that was allocated for it by its
\* constructor or by rotate has been freed.
C13_BuffersFreedOnce ==
  /\ \A a \in DOMAIN heap : heap[a].st # "doublefreed"
  /\ (ncv.live /\ ncv.owndata) => (ncv.data # NULL /\ heap[ncv.data].st = "live")
  /\ (ncv.live /\ ncv.oframe_data # NULL) => heap[ncv.oframe_data].st = "live"
  /\ Gone => \A a \in hist.forvisual : heap[a].st = "freed"

\* C14: the vertical scale of a visual that a constructor returned is 2 when
\* the terminal has UTF-8 half blocks and 1 otherwise, for as long as the
\* visual lives, and rotate never divides by 0.
C14_VertScaleSet ==
  /\ ncv.live => encoding_vert_scale(ncv) = IF input.utf8 THEN 2 ELSE 1
  /\ call.op = "rotate" => call.signal # "SIGFPE"

(***************************************************************************)
(* Properties of ncvisual_rotate.                                          *)
(***************************************************************************)
\* C15: whatever the angle and the size of the source, no destination computed
\* by ncvisual_rotate fails one of the four assertions of the loop.
C15_RotationWithinBounds ==
  call.op = "rotate" => call.signal # "SIGABRT"

\* the last call rotated the visual by 0 radians
RotatedByZero ==
  call.op = "rotate" /\ call.ang = "0" /\ call.signal = "none" /\ call.ret = 0

\* the word at (y, x) of a buffer of the given words per row
WordAt(words, perrow, y, x) == words[y * perrow + x + 1]

\* C16: after a rotation by 0 radians every pixel (y, x) of the buffer as it
\* was before is at (y - dstheight/2 + pdiam/2, x - dstwidth/2 + pdiam/2) of
\* the new buffer, which is (y, x) when the source was square; the pixels of
\* the source are all there, none written over another.
C16_ZeroRotationKeepsContent ==
  RotatedByZero =>
    LET b == hist.before.ncv
        pd == pdiam(b)
        now == heap[ncv.data].words
        offy == (pd \div 2) - (b.dstheight \div 2)
        offx == (pd \div 2) - (b.dstwidth \div 2)
    IN /\ ncv.dstheight = pd /\ ncv.dstwidth = pd /\ ncv.rowstride = pd * 4
       /\ Len(now) = pd * pd
       /\ \A yx \in SourcePixels(b) :
            WordAt(now, pd, yx[1] + offy, yx[2] + offx)
              = WordAt(hist.before.words, b.rowstride \div 4, yx[1], yx[2])
       /\ b.dstheight = b.dstwidth => (offy = 0 /\ offx = 0)
       /\ Cardinality({i \in DOMAIN now : now[i] # Uninit})
            = Cardinality({yx \in SourcePixels(b) :
                             WordAt(hist.before.words, b.rowstride \div 4, yx[1], yx[2])
                               # Uninit})

\* a padded buffer of 2 x 3 pixels was rotated by 0 radians
C16_Witness ==
  /\ RotatedByZero
  /\ hist.before.ncv.dstheight = 2
  /\ hist.before.ncv.dstwidth = 3
  /\ hist.before.ncv.rowstride = 16
  /\ heap[ncv.data].words[4] = 5
  /\ heap[ncv.data].words[7] = Uninit

(***************************************************************************)
(* Properties of bgra_to_rgba.                                             *)
(***************************************************************************)
\* C17: for a buffer whose row stride is cols * 4, the conversion of the
\* result of a conversion is equal to the buffer converted first, word for
\* word; a stride that is not a multiple of 4 gives a null result and
\* allocates nothing.
C17_BgraInvolution ==
  /\ (call.op = "bgra_to_rgba" /\ input.rowstride % 4 # 0) =>
       (call.ret = NULL /\ Len(heap) = 1)
  /\ input.rowstride = input.cols * 4 =>
       \A k \in 1..(Len(hist.chain) - 2) :
          /\ Len(heap[hist.chain[k + 2]].words) = input.rows * input.cols
          /\ heap[hist.chain[k + 2]].words = heap[hist.chain[k]].words

\* the caller's buffer of 2 x 2 pixels was converted twice, and the first
\* conversion moved a byte with its top bit set
C17_Witness ==
  /\ input.rowstride = input.cols * 4
  /\ input.rows = 2 /\ input.cols = 2
  /\ Len(hist.chain) >= 3
  /\ heap[hist.chain[2]].words # heap[hist.chain[1]].words
  /\ heap[1].words[1][4] >= 128
  /\ heap[2].words[1][2] = heap[1].words[1][4]
  /\ heap[2].words[1][4] = heap[1].words[1][2]

(***************************************************************************)
(* Properties of ncvisual_decode of the OpenImageIO build.                 *)
(***************************************************************************)
\* the calls made so far delivered the sub-images in order and then
\* reported the end of the container
InOrderThenEof ==
  \A j \in 1..Len(hist.rets) :
     IF j <= Len(input.subs)
     THEN hist.rets[j] = NCERR_SUCCESS /\ hist.deliv[j] = j - 1
     ELSE hist.rets[j] = NCERR_EOF

\* nothing outside the container has made a call fail: read_image,
\* ncplane_new and resize succeeded, and the visual was placed inside the
\* terminal
NothingFailed ==
  /\ hist.clean
  /\ input.style = NCSCALE_NONE \/ (input.y < TermRows /\ input.x < TermCols)

\* every sub-image of the container has 3 or 4 channels
ChannelsSupported == \A k \in DOMAIN input.subs : input.subs[k].nchannels \in {3, 4}

C19_MarkerZeroOrOne ==
  /\ ncv.packet_outstanding \in {0, 1}
  /\ (strm.pc = "idle" /\ hist.sent) => ncv.packet_outstanding = 0
  /\ ~hist.readheld

\* C20: a call never runs out of stack, because every activation of
\* ncvisual_decode under the caller's has read a unit of the source of its
\* own: there are never more of them than units read during the call.
C20_RetryAdvancesThroughSource ==
  /\ strm.pc # "exhausted"
  /\ strm.depth <= hist.reads

(***************************************************************************)
(* Properties of a failed ncvisual_rotate.                                 *)
(***************************************************************************)
\* the last call was an ncvisual_rotate that returned an error
RotateFailed == call.op = "rotate" /\ call.signal = "none" /\ call.ret # 0

\* C22: when ncvisual_rotate returns an error the visual is as it was before
\* the call: the same struct (buffer, ownership, rowstride, dstwidth,
\* dstheight, plane), the same pixels, and its plane of the same size.
C22_FailedRotateChangesNothing ==
  RotateFailed =>
    /\ ncv = hist.before.ncv
    /\ ncv.data # NULL =>
         (heap[ncv.data].st = "live" /\ heap[ncv.data].words = hist.before.words)
    /\ ncv.ncp # NULL =>
         (planes[ncv.ncp].st = "live" /\ planes[ncv.ncp] = hist.before.planes[ncv.ncp])

(***************************************************************************)
(* Properties of the pacing mode of ncvisual_stream.                       *)
(***************************************************************************)
\* the frame carries a presentation timestamp
Genuine(ts) == ts # AV_NOPTS_VALUE

\* ncvisual_stream is past the decode of its first frame
FirstFrameSeen == strm.pc # "idle" /\ hist.decodes >= 1

\* C25: from the first frame on, the stream paces by timestamps exactly when
\* frame 1 carried a genuine timestamp other than 0, whatever the later
\* frames carry.
C25_ModeFromFirstFrame ==
  FirstFrameSeen => (strm.usets <=> (Genuine(hist.ts1) /\ hist.ts1 # 0))

(***************************************************************************)
(* Properties of deass.                                                    *)
(***************************************************************************)
\* the indices of the commas of a line, and what follows the k-th of them
CommasOf(line) == {i \in 1..Len(line) : line[i] = ","}
AfterComma(line, k) ==
  LET at == CHOOSE i \in CommasOf(line) : Cardinality({j \in CommasOf(line) : j <= i}) = k
  IN SubSeq(line, at + 1, Len(line))

RECURSIVE EscapeStart(_, _)
\* the character i of t is a backslash that starts an escape sequence
EscapeStart(t, i) == t[i] = "\\" /\ (i = 1 \/ ~EscapeStart(t, i - 1))

\* t with every escape sequence (a backslash and the character after it)
\* replaced by blanks
Blanked(t) ==
  [i \in 1..Len(t) |->
     IF EscapeStart(t, i) \/ (i > 1 /\ EscapeStart(t, i - 1)) THEN " " ELSE t[i]]

\* deass returned, properly, the text of the line that follows its k-th
\* comma, escapes blanked, or nothing when the line is no dialogue line or
\* has fewer than k commas
ReturnsTextAfter(k) ==
  call.op = "deass" =>
    /\ call.signal = "none"
    /\ call.ub = "none"
    /\ IF strncmp_eq(input.ass, DialoguePrefix) /\ Cardinality(CommasOf(input.ass)) >= k
       THEN ~call.null /\ call.text = Blanked(AfterComma(input.ass, k))
       ELSE call.null

\* C27: for a line starting with "Dialogue:" deass returns what follows the
\* 8th comma, each backslash and the character after it replaced by blanks;
\* for a dialogue line with fewer commas, or any other line, it returns
\* nothing.
C27_TextAfterEightCommas == ReturnsTextAfter(8)

(***************************************************************************)
(* Properties of the rowstride.                                            *)
(***************************************************************************)
\* C28: whenever ncvisual_rotate is reached on a visual that holds a buffer,
\* rowstride / 4 >= dstwidth, so that the assertion at the top of the
\* rotation never fails, whatever accepted arguments the visual was
\* constructed with.
C28_RowstrideCoversWidth ==
  (call.op = "rotate" /\ call.signal = "SIGABRT") => call.line # 195

(***************************************************************************)
(* Properties of the frames of a visual made from a file.                  *)
(***************************************************************************)
\* the last call was a decode that failed after an earlier one succeeded
DecodeFailedAfterSuccess ==
  call.op = "decode" /\ call.ret # NCERR_SUCCESS /\ hist.decoded >= 1

\* C21: whenever ncvisual_decode returns a non-success result after an
\* earlier successful decode, the visual's buffer pointer is what it was
\* before the call and still refers to intact, unfreed pixel data.
C21_FailedDecodeKeepsFrame ==
  DecodeFailedAfterSuccess =>
    /\ ncv.data # NULL
    /\ ncv.data = hist.pre.data
    /\ heap[ncv.data].st = "live"
    /\ heap[ncv.data].words = hist.pre.words

\* C23: after every successful ncvisual_decode, dstwidth is the column count
\* of the visual's plane and dstheight its row count times the vertical
\* factor, whatever resizes or rotations happened between the decodes.
C23_DecodeMatchesPlane ==
  (call.op = "decode" /\ call.ret = NCERR_SUCCESS) =>
    /\ ncv.dstwidth = planes[ncv.ncp].cols
    /\ ncv.dstheight = planes[ncv.ncp].rows * encoding_vert_scale(ncv)

\* the placement the caller asked ncvisual_from_file for is inside the terminal
PlacementInside == input.y < TermRows /\ input.x < TermCols

\* C24: for a visual made from a file with style SCALE or STRETCH, a decode
\* that gets a frame while the visual has no plane and the placement asked
\* for is outside the terminal returns NCERR_DECODE and makes no plane; with
\* the placement inside, the first successful decode leaves a plane of
\* (terminal rows - y) x (terminal cols - x) made at that placement.
C24_PlacementDecidesPlane ==
  (call.op = "decode" /\ input.style # NCSCALE_NONE) =>
    /\ (hist.got = "frame" /\ hist.pre.ncp = NULL /\ ~PlacementInside) =>
          (call.ret = NCERR_DECODE /\ ncv.ncp = NULL)
    /\ (call.ret = NCERR_SUCCESS /\ hist.decoded = 1 /\ hist.resizes = 0
          /\ PlacementInside) =>
          /\ planes[ncv.ncp].rows = TermRows - input.y
          /\ planes[ncv.ncp].cols = TermCols - input.x
          /\ hist.placed = <<input.y, input.x>>

\* the bytes allocated at address a: none once it is freed
AllocBytes(a) == IF heap[a].st = "live" THEN 4 * Len(heap[a].words) ELSE 0

\* C26: in every state in which the visual holds a buffer, after any
\* sequence of decodes, resizes and rotations, the allocated size of the
\* buffer is at least rowstride x dstheight bytes.
C26_BufferCoversFrame ==
  (ncv.live /\ ncv.data # NULL) => AllocBytes(ncv.data) >= ncv.rowstride * ncv.dstheight

====
